---- MODULE Spec2Model ----
(***************************************************************************)
(* Model of the article generation worker                                  *)
(* (src/lambda/workers/generation_worker.py).                              *)
(*                                                                         *)
(* One worker process runs handler(event) over the records of one event.   *)
(* Every HTTP request of _call_gemini and every registry update is one     *)
(* step; the local computation between two such steps belongs to the step  *)
(* that precedes it.                                                       *)
(*                                                                         *)
(* Abstractions:                                                           *)
(*  - a model text is represented by what _extract_json and                *)
(*    _parse_markdown_article recover from it (whether it is a JSON        *)
(*    object, the length of its stripped body_markdown, the length of the  *)
(*    body the markdown parser finds) and by the title it carries;         *)
(*  - an Article is represented by its title and the length of its         *)
(*    body_markdown, which is all the escalation logic inspects;           *)
(*  - the deployment is configured (ARTICLES_TABLE and                     *)
(*    GENERATION_RUNS_TABLE are set, so the guard of handler line 709      *)
(*    passes) and registry updates succeed.                                *)
(***************************************************************************)
EXTENDS Integers, Sequences, FiniteSets, TLC

(* ---------------------------------------------------------------------- *)
(* Bounds of the model                                                     *)
(* ---------------------------------------------------------------------- *)

\* Largest number of records in one event.
MaxRecords == 2

\* Length of a body that is far below every floor.
TinyBody == 50

\* Largest number of tags of an input of SpecPure.
MaxTags == 2

\* Largest number of upload ids of a unit whose context SpecPure assembles.
MaxUploadIds == 2

\* Largest setting of GEMINI_MAX_RETRIES whose request loop SpecPure runs.
MaxRetriesTried == 5


(* ---------------------------------------------------------------------- *)
(* Program constants                                                       *)
(* ---------------------------------------------------------------------- *)

GEMINI_MAX_RETRIES == 2

GEMINI_MODEL == "gemini-3-flash-preview"

MissingKeyMessage == "Gemini API key is missing."

EmptyOutputMessage == "Gemini output was empty; fallback markdown used."

NotJsonFallbackWarning == "Gemini output was not valid JSON; fallback markdown used."

ParsedAsMarkdownWarning == "Gemini output was not valid JSON; parsed as markdown."

ShortSuffix == "Output shorter than requested."

(* ---------------------------------------------------------------------- *)
(* Strings                                                                 *)
(* ---------------------------------------------------------------------- *)

\* Where the code inspects the characters of a string, the string is a
\* sequence of tokens: a token is one character, or a word that holds none
\* of the characters the code looks for (white space, quotes, brackets,
\* braces, colon, comma, hyphen, hash, backtick, backslash) and does not
\* overlap the word "json".  ESC_QUOTE and ESC_NL are the two-character
\* escapes of a JSON string literal.
NL == "\n"

QUOTE == "\""

APOSTROPHE == "'"

\* The backtick (a character a TLA+ string cannot hold).
BACKTICK == "<backtick>"

ESC_QUOTE == "\\\""

ESC_NL == "\\n"

Whitespace == {" ", NL}

\* F of the value, the value worked out once: a local variable of the code.
With(value, F(_)) == CHOOSE out \in {F(v) : v \in {value}} : TRUE

SetMin(S) == CHOOSE x \in S : \A y \in S : x <= y

SetMax(S) == CHOOSE x \in S : \A y \in S : x >= y

\* str.strip(chars)
strip_chars(s, chars) ==
  LET keep == {i \in 1..Len(s) : s[i] \notin chars}
  IN IF keep = {} THEN <<>> ELSE SubSeq(s, SetMin(keep), SetMax(keep))

\* str.strip()
strip(s) == strip_chars(s, Whitespace)

\* str.lstrip()
lstrip(s) ==
  LET keep == {i \in 1..Len(s) : s[i] \notin Whitespace}
  IN IF keep = {} THEN <<>> ELSE SubSeq(s, SetMin(keep), Len(s))

startswith(s, prefix) ==
  Len(s) >= Len(prefix) /\ SubSeq(s, 1, Len(prefix)) = prefix

endswith(s, suffix) ==
  Len(s) >= Len(suffix) /\ SubSeq(s, Len(s) - Len(suffix) + 1, Len(s)) = suffix

\* str.find(c) and str.rfind(c), counted from 1; 0 when c does not occur.
find(s, c) ==
  LET at == {i \in 1..Len(s) : s[i] = c} IN IF at = {} THEN 0 ELSE SetMin(at)

rfind(s, c) ==
  LET at == {i \in 1..Len(s) : s[i] = c} IN IF at = {} THEN 0 ELSE SetMax(at)

\* s[i:] with i counted from 0.
drop(s, i) == SubSeq(s, i + 1, Len(s))

\* Mutant of remove_first: every occurrence is removed.
remove_first_Every(s, word) == SelectSeq(s, LAMBDA token : token # word)

\* str.replace(word, "", 1)
remove_first(s, word) ==
  LET i == find(s, word)
  IN IF i = 0 THEN s ELSE SubSeq(s, 1, i - 1) \o drop(s, i)

RECURSIVE split(_, _)
\* str.split(sep)
split(s, sep) ==
  LET i == find(s, sep)
  IN IF i = 0 THEN <<s>> ELSE <<SubSeq(s, 1, i - 1)>> \o split(drop(s, i), sep)

\* str.split(sep, 1) of a string that holds sep.
split_once(s, sep) ==
  LET i == find(s, sep) IN <<SubSeq(s, 1, i - 1), drop(s, i)>>

\* str.splitlines()
splitlines(s) ==
  LET pieces == split(s, NL)
  IN IF pieces[Len(pieces)] = <<>> THEN SubSeq(pieces, 1, Len(pieces) - 1)
     ELSE pieces

RECURSIVE join(_, _)
\* sep.join(pieces)
join(pieces, sep) ==
  IF pieces = <<>> THEN <<>>
  ELSE IF Len(pieces) = 1 THEN pieces[1]
  ELSE pieces[1] \o sep \o join(Tail(pieces), sep)

\* str.lower(), token by token.
lower_token(c) ==
  CASE c = "Capture" -> "capture"
    [] c = "Info" -> "info"
    [] c = "Location" -> "location"
    [] OTHER -> c

lower(s) == [i \in 1..Len(s) |-> lower_token(s[i])]

(* ---------------------------------------------------------------------- *)
(* Python values and JSON texts                                            *)
(* ---------------------------------------------------------------------- *)

PyNone == [t |-> "none", s |-> <<>>, items |-> <<>>]

PyStr(s) == [t |-> "str", s |-> s, items |-> <<>>]

\* A number (which one does not matter to the code).
PyNum == [t |-> "num", s |-> <<"7">>, items |-> <<>>]

PyList(items) == [t |-> "list", s |-> <<>>, items |-> items]

\* A dict, as the sequence of its items in insertion order.
PyDict(items) == [t |-> "dict", s |-> <<>>, items |-> items]

Item(k, val) == [k |-> k, val |-> val]

\* dict.get(k)
dict_get(d, k) ==
  LET at == {i \in 1..Len(d.items) : d.items[i].k = k}
  IN IF at = {} THEN PyNone ELSE d.items[SetMax(at)].val

\* The parse of a JSON text from position i on.
ParseFailed == [ok |-> FALSE, val |-> PyNone, next |-> 0]

Parsed(val, next) == [ok |-> TRUE, val |-> val, next |-> next]

skip_ws(s, i) ==
  LET at == {j \in i..Len(s) : s[j] \notin Whitespace}
  IN IF at = {} THEN Len(s) + 1 ELSE SetMin(at)

unescape_token(c) ==
  IF c = ESC_QUOTE THEN QUOTE ELSE IF c = ESC_NL THEN NL ELSE c

escape_token(c) ==
  IF c = QUOTE THEN ESC_QUOTE ELSE IF c = NL THEN ESC_NL ELSE c

\* A string literal that opens at position i.
parse_string(s, i) ==
  LET closing == {j \in (i + 1)..Len(s) : s[j] = QUOTE}
  IN IF closing = {} THEN ParseFailed
     ELSE LET j == SetMin(closing)
              raw == SubSeq(s, i + 1, j - 1)
          IN IF \E k \in 1..Len(raw) : raw[k] \in {NL, "\\"} THEN ParseFailed
             ELSE Parsed(PyStr([k \in 1..Len(raw) |-> unescape_token(raw[k])]), j + 1)

RECURSIVE parse_value(_, _), parse_elements(_, _, _), parse_members(_, _, _)

parse_value(s, i) ==
  IF i > Len(s) THEN ParseFailed
  ELSE IF s[i] = QUOTE THEN parse_string(s, i)
  ELSE IF s[i] = "null" THEN Parsed(PyNone, i + 1)
  ELSE IF s[i] = "7" THEN Parsed(PyNum, i + 1)
  ELSE IF s[i] = "["
    THEN LET j == skip_ws(s, i + 1)
         IN IF j <= Len(s) /\ s[j] = "]" THEN Parsed(PyList(<<>>), j + 1)
            ELSE parse_elements(s, j, <<>>)
  ELSE IF s[i] = "{"
    THEN LET j == skip_ws(s, i + 1)
         IN IF j <= Len(s) /\ s[j] = "}" THEN Parsed(PyDict(<<>>), j + 1)
            ELSE parse_members(s, j, <<>>)
  ELSE ParseFailed

parse_elements(s, i, acc) ==
  LET r == parse_value(s, i)
  IN IF ~r.ok THEN ParseFailed
     ELSE LET j == skip_ws(s, r.next)
          IN IF j > Len(s) THEN ParseFailed
             ELSE IF s[j] = "," THEN parse_elements(s, skip_ws(s, j + 1), Append(acc, r.val))
             ELSE IF s[j] = "]" THEN Parsed(PyList(Append(acc, r.val)), j + 1)
             ELSE ParseFailed

parse_members(s, i, acc) ==
  IF i > Len(s) \/ s[i] # QUOTE THEN ParseFailed
  ELSE LET k == parse_string(s, i)
       IN IF ~k.ok THEN ParseFailed
          ELSE LET c == skip_ws(s, k.next)
               IN IF c > Len(s) \/ s[c] # ":" THEN ParseFailed
                  ELSE LET r == parse_value(s, skip_ws(s, c + 1))
                       IN IF ~r.ok THEN ParseFailed
                          ELSE LET j == skip_ws(s, r.next)
                                   items == Append(acc, Item(k.val.s, r.val))
                               IN IF j > Len(s) THEN ParseFailed
                                  ELSE IF s[j] = ","
                                    THEN parse_members(s, skip_ws(s, j + 1), items)
                                  ELSE IF s[j] = "}" THEN Parsed(PyDict(items), j + 1)
                                  ELSE ParseFailed

\* json.loads: ok is FALSE where the text raises JSONDecodeError.
json_loads(s) ==
  LET r == parse_value(s, skip_ws(s, 1))
  IN IF r.ok /\ skip_ws(s, r.next) = Len(s) + 1 THEN r ELSE ParseFailed

RECURSIVE json_dumps(_), dumps_elements(_), dumps_members(_)

\* json.dumps(value, ensure_ascii=False)
json_dumps(value) ==
  IF value.t = "str"
    THEN <<QUOTE>> \o [k \in 1..Len(value.s) |-> escape_token(value.s[k])] \o <<QUOTE>>
  ELSE IF value.t = "none" THEN <<"null">>
  ELSE IF value.t = "num" THEN value.s
  ELSE IF value.t = "list" THEN <<"[">> \o dumps_elements(value.items) \o <<"]">>
  ELSE <<"{">> \o dumps_members(value.items) \o <<"}">>

dumps_elements(items) ==
  IF items = <<>> THEN <<>>
  ELSE IF Len(items) = 1 THEN json_dumps(items[1])
  ELSE json_dumps(items[1]) \o <<",", " ">> \o dumps_elements(Tail(items))

dumps_members(items) ==
  IF items = <<>> THEN <<>>
  ELSE LET first == json_dumps(PyStr(items[1].k)) \o <<":", " ">> \o json_dumps(items[1].val)
       IN IF Len(items) = 1 THEN first
          ELSE first \o <<",", " ">> \o dumps_members(Tail(items))

(* ---------------------------------------------------------------------- *)
(* The output normalizer on texts                                          *)
(* ---------------------------------------------------------------------- *)

\* bool(value)
truthy(value) ==
  IF value.t = "str" THEN value.s # <<>>
  ELSE IF value.t = "none" THEN FALSE
  ELSE IF value.t = "num" THEN TRUE
  ELSE value.items # <<>>

\* value or default
or_else(value, default) == IF truthy(value) THEN value ELSE default

\* Mutant of as_text: a string is returned as it is.
as_text_Unstripped(value) == IF value.t = "str" THEN value ELSE PyNone

\* Lines 118-122.
as_text(value) ==
  IF value.t = "str" /\ strip(value.s) # <<>> THEN PyStr(strip(value.s)) ELSE PyNone

RECURSIVE normalize_tag_items(_)
normalize_tag_items(items) ==
  IF items = <<>> THEN <<>>
  ELSE LET text == as_text(Head(items))
       IN IF truthy(text) THEN <<text>> \o normalize_tag_items(Tail(items))
          ELSE normalize_tag_items(Tail(items))

\* Lines 306-314.
normalize_tags(value) ==
  IF value.t # "list" THEN PyList(<<>>) ELSE PyList(normalize_tag_items(value.items))

Key(word) == <<word>>

Word(word) == PyStr(<<word>>)

\* Lines 317-337.
normalize_article_json(data, created_at, privacy_level, fallback_title) ==
  LET capture == IF dict_get(data, Key("capture_info")).t = "dict"
                   THEN dict_get(data, Key("capture_info")) ELSE PyDict(<<>>)
  IN PyDict(<<
       Item(Key("title"), or_else(as_text(dict_get(data, Key("title"))), fallback_title)),
       Item(Key("date"), or_else(as_text(dict_get(data, Key("date"))), created_at)),
       Item(Key("location"),
            or_else(as_text(dict_get(data, Key("location"))), privacy_level)),
       Item(Key("tags"), normalize_tags(dict_get(data, Key("tags")))),
       Item(Key("body_markdown"),
            or_else(as_text(dict_get(data, Key("body_markdown"))), PyStr(<<>>))),
       Item(Key("capture_info"), PyDict(<<
         Item(Key("captured_at"),
              or_else(as_text(dict_get(capture, Key("captured_at"))), Word("unknown"))),
         Item(Key("location"),
              or_else(as_text(dict_get(capture, Key("location"))), Word("unspecified")))
       >>)) >>)

Fence == <<BACKTICK, BACKTICK, BACKTICK>>

dict_or_none(parsed) == IF parsed.t = "dict" THEN parsed ELSE PyNone

\* Lines 147-168.
extract_json(text) ==
  IF text = <<>> THEN PyNone
  ELSE With(strip(text), LAMBDA stripped :
       With(IF startswith(stripped, Fence)
              THEN strip(remove_first(strip_chars(stripped, {BACKTICK}), "json"))
              ELSE stripped,
            LAMBDA candidate :
       With(json_loads(candidate), LAMBDA whole :
         LET start == find(candidate, "{")
             end == rfind(candidate, "}")
         IN IF whole.ok THEN dict_or_none(whole.val)
            ELSE IF start = 0 \/ end = 0 \/ end <= start THEN PyNone
            ELSE With(json_loads(SubSeq(candidate, start, end)), LAMBDA inner :
                   IF inner.ok THEN dict_or_none(inner.val) ELSE PyNone))))

RECURSIVE tag_parts(_)
\* [part.strip().strip('"').strip("'") for part in parts if part.strip()]
tag_parts(parts) ==
  IF parts = <<>> THEN <<>>
  ELSE IF strip(Head(parts)) # <<>>
    THEN <<PyStr(strip_chars(strip_chars(strip(Head(parts)), {QUOTE}), {APOSTROPHE}))>>
           \o tag_parts(Tail(parts))
  ELSE tag_parts(Tail(parts))

\* Mutant of parse_tags_value: a bracketed value that is not JSON has no tags.
parse_tags_value_RejectsBrokenBrackets(value) ==
  IF ~truthy(value) THEN PyList(<<>>)
  ELSE LET raw == strip(value.s)
       IN IF raw = <<>> THEN PyList(<<>>)
          ELSE IF startswith(raw, <<"[">>) /\ endswith(raw, <<"]">>)
            THEN IF json_loads(raw).ok THEN normalize_tags(json_loads(raw).val)
                 ELSE PyList(<<>>)
          ELSE PyList(tag_parts(split(raw, ",")))

\* Lines 171-186.
parse_tags_value(value) ==
  IF ~truthy(value) THEN PyList(<<>>)
  ELSE LET raw == strip(value.s)
       IN IF raw = <<>> THEN PyList(<<>>)
          ELSE IF startswith(raw, <<"[">>) /\ endswith(raw, <<"]">>)
            THEN IF json_loads(raw).ok THEN normalize_tags(json_loads(raw).val)
                 ELSE LET inner == strip(SubSeq(raw, 2, Len(raw) - 1))
                      IN IF inner = <<>> THEN PyList(<<>>)
                         ELSE PyList(tag_parts(split(inner, ",")))
          ELSE PyList(tag_parts(split(raw, ",")))

\* Lines 189-197.
strip_top_heading(body) ==
  LET lines == splitlines(lstrip(body))
  IN IF lines = <<>> THEN strip(body)
     ELSE IF startswith(lines[1], <<"#", " ">>)
       THEN LET rest == Tail(lines)
            IN IF rest # <<>> /\ strip(rest[1]) = <<>>
                 THEN strip(join(Tail(rest), <<NL>>))
                 ELSE strip(join(rest, <<NL>>))
     ELSE strip(join(lines, <<NL>>))

CaptureHeading == <<"#", "#", " ", "capture", " ", "info">>

RECURSIVE capture_items(_)
\* Lines 219-231: the items the bullet lines of the section give.
capture_items(lines) ==
  IF lines = <<>> THEN <<>>
  ELSE With(strip(Head(lines)), LAMBDA first :
       With(IF startswith(first, <<"-">>) THEN strip(drop(first, 1)) ELSE first,
            LAMBDA stripped :
         LET key == lower(strip(split_once(stripped, ":")[1]))
             value == strip(split_once(stripped, ":")[2])
         IN IF find(stripped, ":") = 0 THEN capture_items(Tail(lines))
            ELSE IF key = Key("captured_at")
              THEN <<Item(key, IF value = <<>> THEN Word("unknown") ELSE PyStr(value))>>
                     \o capture_items(Tail(lines))
            ELSE IF key = Key("location")
              THEN <<Item(key, IF value = <<>> THEN Word("unspecified") ELSE PyStr(value))>>
                     \o capture_items(Tail(lines))
            ELSE capture_items(Tail(lines))))

\* Lines 200-233.
split_capture_info(body) ==
  With(splitlines(body), LAMBDA lines :
  With({i \in 1..Len(lines) : lower(strip(lines[i])) = CaptureHeading}, LAMBDA headings :
    IF headings = {} THEN [body |-> strip(body), capture_info |-> PyDict(<<>>)]
    ELSE With(SubSeq(lines, SetMin(headings) + 1, Len(lines)), LAMBDA after :
         LET capture_index == SetMin(headings)
             stops == {i \in 1..Len(after) :
                         \/ startswith(strip(after[i]), <<"#", "#", " ">>)
                         \/ startswith(strip(after[i]), <<"#", " ">>)}
             capture_lines == IF stops = {} THEN after
                              ELSE SubSeq(after, 1, SetMin(stops) - 1)
         IN [body |-> strip(join(SubSeq(lines, 1, capture_index - 1), <<NL>>)),
             capture_info |-> PyDict(capture_items(capture_lines))])))

FrontMatterMark == <<"-", "-", "-">>

RECURSIVE front_matter_items(_)
\* Lines 257-261.
front_matter_items(lines) ==
  IF lines = <<>> THEN <<>>
  ELSE IF find(Head(lines), ":") = 0 THEN front_matter_items(Tail(lines))
  ELSE <<Item(lower(strip(split_once(Head(lines), ":")[1])),
              PyStr(strip_chars(strip(split_once(Head(lines), ":")[2]), {QUOTE})))>>
         \o front_matter_items(Tail(lines))

\* dict.get(k, default)
dict_get_default(d, k, default) ==
  IF \E i \in 1..Len(d.items) : d.items[i].k = k THEN dict_get(d, k) ELSE default

\* Lines 236-296.
parse_markdown_article(text, created_at, privacy_level, fallback_title) ==
  IF strip(text) = <<>> THEN PyNone
  ELSE
    With(splitlines(strip(text)), LAMBDA lines :
    With({i \in 2..Len(lines) : strip(lines[i]) = FrontMatterMark}, LAMBDA ends :
    With(strip(lines[1]) = FrontMatterMark /\ ends # {}, LAMBDA has_front :
    With(IF has_front THEN PyDict(front_matter_items(SubSeq(lines, 2, SetMin(ends) - 1)))
         ELSE PyDict(<<>>),
         LAMBDA front_matter :
    With(IF has_front THEN SubSeq(lines, SetMin(ends) + 1, Len(lines)) ELSE lines,
         LAMBDA body_lines :
    With(strip(join(body_lines, <<NL>>)), LAMBDA body :
    With(split_capture_info(strip_top_heading(body)), LAMBDA parts :
      LET headings == {i \in 1..Len(body_lines) : startswith(body_lines[i], <<"#", " ">>)}
          heading_title == IF headings = {} THEN PyNone
                           ELSE PyStr(strip(drop(body_lines[SetMin(headings)], 2)))
          title == or_else(or_else(as_text(dict_get(front_matter, Key("title"))),
                                   heading_title),
                           fallback_title)
      IN IF body = <<>> \/ parts.body = <<>> THEN PyNone
         ELSE PyDict(<<
           Item(Key("title"), title),
           Item(Key("date"),
                or_else(as_text(dict_get(front_matter, Key("date"))), created_at)),
           Item(Key("location"),
                or_else(as_text(dict_get(front_matter, Key("location"))), privacy_level)),
           Item(Key("tags"), parse_tags_value(dict_get(front_matter, Key("tags")))),
           Item(Key("body_markdown"), PyStr(parts.body)),
           Item(Key("capture_info"), PyDict(<<
             Item(Key("captured_at"),
                  dict_get_default(parts.capture_info, Key("captured_at"),
                                   Word("unknown"))),
             Item(Key("location"),
                  dict_get_default(parts.capture_info, Key("location"),
                                   Word("unspecified")))
           >>)) >>))))))))

NotJsonFallback == [article |-> PyNone, warning |-> NotJsonFallbackWarning]

\* Lines 340-361.
coerce(response_text, created_at, privacy_level, fallback_title) ==
  With(extract_json(response_text), LAMBDA from_json :
  With(truthy(from_json) /\ truthy(as_text(dict_get(from_json, Key("body_markdown")))),
       LAMBDA use_json :
  With(IF use_json THEN from_json
       ELSE parse_markdown_article(response_text, created_at, privacy_level,
                                   fallback_title),
       LAMBDA candidate :
    IF ~truthy(candidate) THEN NotJsonFallback
    ELSE [article |-> normalize_article_json(candidate, created_at, privacy_level,
                                             fallback_title),
          warning |-> IF use_json THEN "" ELSE ParsedAsMarkdownWarning])))

\* Lines 364-389.
markdown_from_json(article_json) ==
  LET title == or_else(dict_get(article_json, Key("title")), Word("Untitled")).s
      date == or_else(dict_get(article_json, Key("date")), Word("<utcnow>")).s
      location == or_else(dict_get(article_json, Key("location")), Word("area")).s
      tags == or_else(dict_get(article_json, Key("tags")), PyList(<<>>))
      body == or_else(dict_get(article_json, Key("body_markdown")), PyStr(<<>>)).s
      capture == or_else(dict_get(article_json, Key("capture_info")), PyDict(<<>>))
      captured_at == or_else(dict_get(capture, Key("captured_at")), Word("unknown")).s
      capture_location == or_else(dict_get(capture, Key("location")), Word("unspecified")).s
      tags_yaml == IF truthy(tags) THEN json_dumps(tags) ELSE <<"[", "]">>
  IN FrontMatterMark \o <<NL>>
       \o <<"title", ":", " ", QUOTE>> \o title \o <<QUOTE, NL>>
       \o <<"date", ":", " ">> \o date \o <<NL>>
       \o <<"location", ":", " ">> \o location \o <<NL>>
       \o <<"tags", ":", " ">> \o tags_yaml \o <<NL>>
       \o FrontMatterMark \o <<NL, NL>>
       \o <<"#", " ">> \o title \o <<NL, NL>>
       \o strip(body) \o <<NL, NL>>
       \o <<"#", "#", " ", "Capture", " ", "info", NL>>
       \o <<"-", " ", "captured_at", ":", " ">> \o captured_at \o <<NL>>
       \o <<"-", " ", "location", ":", " ">> \o capture_location \o <<NL>>

(* ---------------------------------------------------------------------- *)
(* JSON values of a work unit                                              *)
(* ---------------------------------------------------------------------- *)

Str(s) == [t |-> "str", v |-> s]

Null == [t |-> "null", v |-> ""]

\* A JSON number.
Number == [t |-> "num", v |-> "7"]

IsStr(x) == x.t = "str"

\* The (article_id, run_id) pairs of the work units that can be delivered.
UnitIds == {<<"a1", "r1">>, <<"a2", "r2">>}

ArticleIds == {p[1] : p \in UnitIds}

RunIds == {p[2] : p \in UnitIds}

\* The values of the "length" field: Null stands for an absent field.
LengthValues == {Str("short"), Str("long"), Null}

\* Bodies of the records of an event.
NotJsonBody == [form |-> "not_json"]

NonObjectBody == [form |-> "non_object"]

ObjectBody(article_id, run_id, length, upload_ids) ==
  [form |-> "object", article_id |-> article_id, run_id |-> run_id, length |-> length,
   upload_ids |-> upload_ids]

\* The upload ids generate-article sent with the units.
SentUploadIds == PyList(<<PyStr(<<"u1">>)>>)

\* The values of the "upload_ids" field: PyNone stands for an absent field
\* (the message of regenerate-article has none).
UploadIdValues == {PyNone, SentUploadIds}

RecordBodies ==
  {NotJsonBody, NonObjectBody}
    \cup {ObjectBody(Null, Str("r1"), Null, SentUploadIds),
          ObjectBody(Str("a1"), Null, Null, SentUploadIds),
          ObjectBody(Number, Str("r1"), Null, SentUploadIds)}
    \cup {ObjectBody(Str(p[1]), Str(p[2]), l, u) :
            p \in UnitIds, l \in LengthValues, u \in UploadIdValues}

(* ---------------------------------------------------------------------- *)
(* Articles, texts and the output normalizer                               *)
(* ---------------------------------------------------------------------- *)

NoArticle == [present |-> FALSE, title |-> "", body_len |-> 0]

Article(title, n) == [present |-> TRUE, title |-> title, body_len |-> n]

\* A model text, by what the two parsers recover from it.
Text(is_obj, title, json_len, md_len) ==
  [is_json_object |-> is_obj, title |-> title, json_body_len |-> json_len,
   md_body_len |-> md_len]

EmptyText == Text(FALSE, "", 0, 0)

article_body_length(article_json) ==
  IF ~article_json.present THEN 0 ELSE article_json.body_len

min_chars_for_length(length) ==
  IF length = "short" THEN 300
  ELSE IF length = "long" THEN 1200
  ELSE 600

\* _extract_json followed by the body_markdown test of line 349.
JsonCandidate(text) == text.is_json_object /\ text.json_body_len > 0

\* _parse_markdown_article: an article exactly when a body is left.
MarkdownCandidate(text) == text.md_body_len > 0

normalize_title(title, fallback_title) ==
  IF title = "" THEN fallback_title ELSE title

coerce_response_to_article_json(text, fallback_title) ==
  IF JsonCandidate(text)
    THEN [article |-> Article(normalize_title(text.title, fallback_title),
                              text.json_body_len),
          warning |-> ""]
  ELSE IF MarkdownCandidate(text)
    THEN [article |-> Article(normalize_title(text.title, fallback_title),
                              text.md_body_len),
          warning |-> ParsedAsMarkdownWarning]
  ELSE [article |-> NoArticle, warning |-> NotJsonFallbackWarning]

\* The stored markdown: which builder made it and from what.
EmptyMarkdown == [template |-> "none", title |-> "", body_len |-> 0]

build_markdown(title) == [template |-> "placeholder", title |-> title, body_len |-> 0]

build_markdown_from_json(article_json) ==
  [template |-> "article", title |-> article_json.title,
   body_len |-> article_json.body_len]

FallbackBodyJson == [status |-> "fallback"]

FallbackTitle(article_id) == "Auto draft " \o article_id

(* ---------------------------------------------------------------------- *)
(* Context assembly                                                        *)
(* ---------------------------------------------------------------------- *)

RECURSIVE clean_upload_ids(_)
\* [uid.strip() for uid in ids if isinstance(uid, str) and uid.strip()]
clean_upload_ids(ids) ==
  IF ids = <<>> THEN <<>>
  ELSE IF Head(ids).t = "str" /\ strip(Head(ids).s) # <<>>
    THEN <<strip(Head(ids).s)>> \o clean_upload_ids(Tail(ids))
  ELSE clean_upload_ids(Tail(ids))

upload_ids_of(value) ==
  IF value.t = "list" THEN clean_upload_ids(value.items) ELSE <<>>

\* Lines 393-396: the ids of the payload are used when any is left.
payload_has_upload_ids(body) == upload_ids_of(body.upload_ids) # <<>>

\* Mutant of resolve_upload_ids: the article item is never consulted.
resolve_upload_ids_PayloadOnly(body, derived) == upload_ids_of(body.upload_ids)

\* Lines 392-401; derived is the derived_from_upload_ids of the item that
\* _safe_get_item returned (PyNone when the item is empty).
resolve_upload_ids(body, derived) ==
  IF payload_has_upload_ids(body) THEN upload_ids_of(body.upload_ids)
  ELSE upload_ids_of(derived)

\* What get_item answers: raises tells whether the call raised, item is
\* the "Item" of the response (PyNone when the response has none).
GetItemAnswer(raises, item) == [raises |-> raises, item |-> item]

EmptyItem == PyDict(<<>>)

\* Lines 136-144 for a configured table.
safe_get_item(answer) ==
  IF answer.raises THEN EmptyItem ELSE or_else(answer.item, EmptyItem)

\* Lines 397-398: the derived_from_upload_ids _resolve_upload_ids reads.
derived_upload_ids(answer) ==
  dict_get(safe_get_item(answer), Key("derived_from_upload_ids"))

\* A number as the registries return it (a Decimal, which is neither int
\* nor float).
PyDecimal == [t |-> "decimal", s |-> <<"2048">>, items |-> <<>>]

\* The stripped texts of the values that have one.
text_parts(values) ==
  LET kept == SelectSeq([i \in 1..Len(values) |-> as_text(values[i])],
                        LAMBDA v : v # PyNone)
  IN [i \in 1..Len(kept) |-> kept[i].s]

\* Lines 125-133.
location_label(reverse_geocode) ==
  IF reverse_geocode.t # "dict" THEN PyNone
  ELSE IF as_text(dict_get(reverse_geocode, Key("label"))) # PyNone
    THEN as_text(dict_get(reverse_geocode, Key("label")))
  ELSE With(text_parts(<<dict_get(reverse_geocode, Key("city")),
                         dict_get(reverse_geocode, Key("prefecture")),
                         dict_get(reverse_geocode, Key("country"))>>),
            LAMBDA parts : IF parts = <<>> THEN PyNone
                           ELSE PyStr(join(parts, <<",", " ">>)))

\* The part "label=value" of a photo line, if the value is there.
labelled(label, value) ==
  IF value = PyNone THEN <<>> ELSE << <<label, "=">> \o value.s >>

\* Lines 436-438: PyNum is the number 7, and int(7 / 1024) is 0.
size_kb_part(content_length) ==
  IF content_length.t = "num" THEN << <<"size_kb", "=", "0">> >> ELSE <<>>

\* Lines 413-438: the parts of the line of one upload id.
photo_parts(upload_id, upload_item, metadata_item) ==
  << <<"id", "=">> \o upload_id >>
    \o labelled("file", or_else(as_text(dict_get(metadata_item, Key("object_key"))),
                                as_text(dict_get(upload_item, Key("original_image_uri")))))
    \o labelled("captured_at", as_text(dict_get(metadata_item, Key("datetime_original"))))
    \o labelled("uploaded_at", as_text(dict_get(upload_item, Key("created_at"))))
    \o With(text_parts(<<dict_get(metadata_item, Key("camera_make")),
                         dict_get(metadata_item, Key("camera_model"))>>),
            LAMBDA camera : IF camera = <<>> THEN <<>>
                            ELSE << <<"camera", "=">> \o join(camera, <<" ">>) >>)
    \o labelled("location", location_label(dict_get(metadata_item, Key("reverse_geocode"))))
    \o labelled("type", as_text(dict_get(metadata_item, Key("content_type"))))
    \o size_kb_part(dict_get(metadata_item, Key("content_length")))

\* Line 440.
photo_line(index, parts) == <<ToString(index), ".", " ">> \o join(parts, <<";", " ">>)

\* Mutant of format_photo_context: an id whose upload lookup raised gets
\* no line.
format_photo_context_SkipsFailedLookup(upload_ids, reads) ==
  join(SelectSeq([i \in 1..Len(upload_ids) |->
                    IF reads[i].upload.raises THEN <<>>
                    ELSE photo_line(i, photo_parts(upload_ids[i],
                                                   safe_get_item(reads[i].upload),
                                                   safe_get_item(reads[i].metadata)))],
                 LAMBDA line : line # <<>>),
       <<NL>>)

\* Lines 404-441; reads[i] holds what the upload registry and the metadata
\* store answer for the i-th id.
format_photo_context(upload_ids, reads) ==
  join([i \in 1..Len(upload_ids) |->
          photo_line(i, photo_parts(upload_ids[i], safe_get_item(reads[i].upload),
                                    safe_get_item(reads[i].metadata)))],
       <<NL>>)

UrlDelims == {":", "/", "?", "#", "[", "]"}

\* str.lstrip(chars)
lstrip_chars(s, chars) ==
  LET keep == {i \in 1..Len(s) : s[i] \notin chars}
  IN IF keep = {} THEN <<>> ELSE SubSeq(s, SetMin(keep), Len(s))

\* The part of s before its first token of chars.
until_any(s, chars) ==
  LET stop == {i \in 1..Len(s) : s[i] \in chars}
  IN IF stop = {} THEN s ELSE SubSeq(s, 1, SetMin(stop) - 1)

\* The position of the colon that ends the scheme of a URL, 0 without a
\* scheme.
scheme_end(uri) ==
  LET colon == find(uri, ":")
  IN IF colon > 1 /\ \A i \in 1..(colon - 1) : uri[i] \notin UrlDelims \cup Whitespace
       THEN colon ELSE 0

\* urllib.parse.urlparse: scheme, netloc and path of a URL; raises tells
\* that it raises ValueError (a netloc with one bracket only).
urlparse(uri) ==
  With(scheme_end(uri), LAMBDA colon :
  With(drop(uri, colon), LAMBDA rest :
  With(IF startswith(rest, <<"/", "/">>) THEN 2 ELSE 0, LAMBDA slashes :
  With(IF slashes = 2 THEN until_any(drop(rest, 2), {"/", "?", "#"}) ELSE <<>>,
       LAMBDA netloc :
    [raises |-> (\E i \in 1..Len(netloc) : netloc[i] = "[")
                  # (\E i \in 1..Len(netloc) : netloc[i] = "]"),
     scheme |-> IF colon = 0 THEN <<>> ELSE lower(SubSeq(uri, 1, colon - 1)),
     netloc |-> netloc,
     path |-> until_any(drop(rest, slashes + Len(netloc)), {"?", "#"})]))))

\* What _resolve_s3_location gives: a pair, (None, None), or the ValueError
\* of urlparse.
NoLocation == [raises |-> FALSE, found |-> FALSE, bucket |-> <<>>, key |-> <<>>]

Location(bucket, key) == [raises |-> FALSE, found |-> TRUE, bucket |-> bucket, key |-> key]

LocationRaised == [raises |-> TRUE, found |-> FALSE, bucket |-> <<>>, key |-> <<>>]

\* Lines 444-450.
parse_s3_uri(uri) ==
  IF uri = <<>> THEN NoLocation
  ELSE With(urlparse(uri), LAMBDA parsed :
         IF parsed.raises THEN LocationRaised
         ELSE IF parsed.scheme # <<"s3">> \/ parsed.netloc = <<>> \/ parsed.path = <<>>
           THEN NoLocation
         ELSE Location(parsed.netloc, lstrip_chars(parsed.path, {"/"})))

\* Lines 453-465.
resolve_s3_location(upload_item, metadata_item) ==
  With(as_text(dict_get(metadata_item, Key("object_bucket"))), LAMBDA bucket :
  With(as_text(dict_get(metadata_item, Key("object_key"))), LAMBDA key :
    IF bucket # PyNone /\ key # PyNone THEN Location(bucket.s, key.s)
    ELSE With(or_else(as_text(dict_get(metadata_item, Key("s3_uri"))),
                      as_text(dict_get(upload_item, Key("original_image_uri")))),
              LAMBDA s3_uri : IF s3_uri = PyNone THEN NoLocation
                              ELSE parse_s3_uri(s3_uri.s))))

\* What get_object and the read of its Body answer: kind is "raises" (of
\* get_object), "no_body", "read_raises" or "data".
S3Answer(kind, data, content_type) ==
  [kind |-> kind, data |-> data, content_type |-> content_type]

\* mimetypes.guess_type(key)[0] by the extension of the key (<<>> for None);
\* a file name that is nothing but the extension has none.
guess_type(key) ==
  IF Len(key) < 2 \/ key[Len(key) - 1] = "/" THEN <<>>
  ELSE IF key[Len(key)] = ".png" THEN <<"image/png">>
  ELSE IF key[Len(key)] = ".jpg" THEN <<"image/jpeg">>
  ELSE <<>>

\* Lines 493-496.
mime_type(answer, key) ==
  IF answer.content_type.t = "str" /\ strip(answer.content_type.s) # <<>>
    THEN answer.content_type.s
  ELSE IF guess_type(key) # <<>> THEN guess_type(key)
  ELSE <<"image/jpeg">>

\* base64.b64encode(data).decode("ascii")
b64encode(data) == <<"base64", ":">> \o data

InlineData(mimeType, data) == [mimeType |-> mimeType, data |-> data]

\* Lines 476-500: the attachment of one upload id, if any.
image_part(location, answer) ==
  IF location.bucket = <<>> \/ location.key = <<>> THEN <<>>
  ELSE IF answer.kind # "data" \/ answer.data = <<>> THEN <<>>
  ELSE <<InlineData(mime_type(answer, location.key), b64encode(answer.data))>>

Loaded(parts) == [raises |-> FALSE, parts |-> parts]

LoadRaised == [raises |-> TRUE, parts |-> <<>>]

RECURSIVE load_image_parts(_, _)
\* Lines 468-501; reads[i] holds what the upload registry, the metadata
\* store and the object store answer for the i-th id.  _resolve_s3_location
\* is called outside the try, so a ValueError of urlparse leaves the
\* function.
load_image_parts(upload_ids, reads) ==
  IF upload_ids = <<>> THEN Loaded(<<>>)
  ELSE With(resolve_s3_location(safe_get_item(Head(reads).upload),
                                safe_get_item(Head(reads).metadata)),
            LAMBDA location :
              IF location.raises THEN LoadRaised
              ELSE With(load_image_parts(Tail(upload_ids), Tail(reads)),
                        LAMBDA rest :
                          IF rest.raises THEN LoadRaised
                          ELSE Loaded(image_part(location, Head(reads).fetch)
                                        \o rest.parts)))

S3Uri(scheme, bucket, key) == <<scheme, ":", "/", "/">> \o bucket \o <<"/">> \o key

ObjectKeyOf(upload_id) == <<"raw", "/">> \o upload_id \o <<".jpg">>

\* The record of a photo in the upload registry and in the metadata store.
UploadItemOf(upload_id) ==
  PyDict(<<Item(Key("upload_id"), PyStr(upload_id)),
           Item(Key("original_image_uri"),
                PyStr(S3Uri("s3", <<"photos">>, ObjectKeyOf(upload_id)))),
           Item(Key("created_at"), Word("T1"))>>)

MetadataItemOf(upload_id) ==
  PyDict(<<Item(Key("upload_id"), PyStr(upload_id)),
           Item(Key("object_bucket"), Word("photos")),
           Item(Key("object_key"), PyStr(ObjectKeyOf(upload_id))),
           Item(Key("datetime_original"), Word("T2")),
           Item(Key("camera_make"), Word("Canon")),
           Item(Key("reverse_geocode"),
                PyDict(<<Item(Key("city"), Word("Kyoto")),
                         Item(Key("country"), Word("Japan"))>>)),
           Item(Key("content_type"), Word("image/jpeg")),
           Item(Key("content_length"), PyDecimal)>>)

BytesOf(upload_id) == <<"jpeg", " ", "of", " ">> \o upload_id

ItemGiven(item) == GetItemAnswer(FALSE, item)

LookupRaises == GetItemAnswer(TRUE, PyNone)

NoItemGiven == GetItemAnswer(FALSE, PyNone)

\* What can go wrong for one upload id: in the lookups of
\* _format_photo_context, in the lookups of _load_image_parts, or in the
\* fetch of the bytes.
PhotoScenarios ==
  {"ok", "context_upload_raises", "context_metadata_missing", "context_both_raise",
   "image_metadata_raises", "image_both_missing", "get_object_raises", "no_body",
   "read_raises", "empty_data", "all_fail"}

ContextReadOf(upload_id, scenario) ==
  [upload |-> IF scenario \in {"context_upload_raises", "context_both_raise", "all_fail"}
                THEN LookupRaises ELSE ItemGiven(UploadItemOf(upload_id)),
   metadata |-> IF scenario \in {"context_both_raise", "all_fail"} THEN LookupRaises
                ELSE IF scenario = "context_metadata_missing" THEN NoItemGiven
                ELSE ItemGiven(MetadataItemOf(upload_id))]

ImageReadOf(upload_id, scenario) ==
  [upload |-> IF scenario = "all_fail" THEN LookupRaises
              ELSE IF scenario = "image_both_missing" THEN NoItemGiven
              ELSE ItemGiven(UploadItemOf(upload_id)),
   metadata |-> IF scenario \in {"image_metadata_raises", "all_fail"} THEN LookupRaises
                ELSE IF scenario = "image_both_missing" THEN NoItemGiven
                ELSE ItemGiven(MetadataItemOf(upload_id)),
   fetch |-> IF scenario \in {"get_object_raises", "all_fail"}
               THEN S3Answer("raises", <<>>, PyNone)
             ELSE IF scenario = "no_body" THEN S3Answer("no_body", <<>>, PyNone)
             ELSE IF scenario = "read_raises" THEN S3Answer("read_raises", <<>>, PyNone)
             ELSE IF scenario = "empty_data" THEN S3Answer("data", <<>>, Word("image/jpeg"))
             ELSE S3Answer("data", BytesOf(upload_id), PyNone)]

(* ---------------------------------------------------------------------- *)
(* Credential lookup                                                       *)
(* ---------------------------------------------------------------------- *)

NoneValue == [some |-> FALSE, v |-> <<>>]

Some(x) == [some |-> TRUE, v |-> x]

\* What get_secret_value answers: whether the secret is configured at all
\* (GEMINI_API_KEY_SECRET_ARN), whether the call returns, and the
\* SecretString and SecretBinary of the response.
SecretAnswer(configured, fetched, secret_string, secret_binary) ==
  [configured |-> configured, fetched |-> fetched, secret_string |-> secret_string,
   secret_binary |-> secret_binary]

NoBinary == [present |-> FALSE, decodes |-> FALSE, text |-> <<>>]

\* A non-empty SecretBinary: whether it decodes (base64, UTF-8), and to what.
Binary(decodes, text) == [present |-> TRUE, decodes |-> decodes, text |-> text]

KeyNames == <<"apiKey", "key", "GEMINI_API_KEY">>

RECURSIVE first_key(_, _)
\* Lines 81-85: the first of the names whose value is a non-blank string.
first_key(payload, names) ==
  IF names = <<>> THEN <<>>
  ELSE LET key_value == dict_get(payload, Key(Head(names)))
       IN IF key_value.t = "str" /\ strip(key_value.s) # <<>> THEN strip(key_value.s)
          ELSE first_key(payload, Tail(names))

\* Lines 66-72.
secret_value_of(answer) ==
  IF ~truthy(answer.secret_string) /\ answer.secret_binary.present
    THEN IF answer.secret_binary.decodes THEN PyStr(answer.secret_binary.text)
         ELSE PyStr(<<>>)
    ELSE answer.secret_string

\* _get_api_key on an empty cache (lines 55-91): the credential the answer
\* yields.
get_api_key(answer) ==
  IF ~answer.configured THEN <<>>
  ELSE IF ~answer.fetched THEN <<>>
  ELSE LET secret_value == secret_value_of(answer)
       IN IF secret_value.t # "str" \/ strip(secret_value.s) = <<>> THEN <<>>
          ELSE LET stripped == strip(secret_value.s)
                   payload == json_loads(stripped)
                   key_value == IF payload.ok /\ payload.val.t = "dict"
                                  THEN first_key(payload.val, KeyNames) ELSE <<>>
               IN IF key_value # <<>> THEN key_value ELSE stripped

\* Mutant of SecretCalls: an empty credential is not kept, the store is
\* asked again.
SecretCalls_EmptyNotCached(cache, answer) ==
  IF cache.some /\ cache.v # <<>> THEN 0
  ELSE IF ~answer.configured THEN 0
  ELSE 1

\* Lines 52-58: the get_secret_value calls one _get_api_key makes, none when
\* the cache is set or no secret is configured.
SecretCalls(cache, answer) ==
  IF cache.some THEN 0
  ELSE IF ~answer.configured THEN 0
  ELSE 1

\* What the secret store answers to the one lookup of a worker process.
ProcessSecretAnswers ==
  { SecretAnswer(FALSE, FALSE, PyNone, NoBinary),
    SecretAnswer(TRUE, FALSE, PyNone, NoBinary),
    SecretAnswer(TRUE, TRUE, PyStr(<<>>), NoBinary),
    SecretAnswer(TRUE, TRUE, PyStr(<<"K0">>), NoBinary) }

(* ---------------------------------------------------------------------- *)
(* Model client                                                            *)
(* ---------------------------------------------------------------------- *)

Min(a, b) == IF a <= b THEN a ELSE b

Max(a, b) == IF a >= b THEN a ELSE b

\* A response body: undecodable, or a list of candidates, each given by the
\* concatenation of its text parts.
Payload(decodes, candidates) == [decodes |-> decodes, candidates |-> candidates]

NoPayload == Payload(FALSE, <<>>)

IsTimeout(outcome) ==
  \/ outcome.kind = "timeout"
  \/ outcome.kind = "url_error" /\ outcome.reason = "timeout"

\* The except clause of lines 671-692 that an outcome reaches.
OutcomeClass(outcome) ==
  IF IsTimeout(outcome) THEN "timeout" ELSE outcome.kind

RequestFailed(text) == "Gemini API request failed: " \o text

\* Lines 512-557: the prompt of the initial call and of the retry, by the
\* values it embeds; photo_details is the "Photo details" block (none for
\* an empty photo context).
build_prompt(upload_ids, photo_context, min_chars, retry) ==
  [template |-> "draft", photo_count |-> <<Len(upload_ids)>>, min_chars |-> min_chars,
   retry |-> retry, photo_details |-> photo_context, draft |-> NoArticle]

\* Lines 560-589: the prompt of the expansion embeds the current Article
\* and neither photo count nor photo context.
build_expand_prompt(article_json, min_chars) ==
  [template |-> "improve", photo_count |-> <<>>, min_chars |-> min_chars,
   retry |-> FALSE, photo_details |-> <<>>, draft |-> article_json]

NoPrompt ==
  [template |-> "none", photo_count |-> <<>>, min_chars |-> 0, retry |-> FALSE,
   photo_details |-> <<>>, draft |-> NoArticle]

\* The locals of _call_gemini when it starts: prompt and image_parts are
\* its arguments.
NewCall(stage) ==
  [stage |-> stage, attempt |-> 0, requests |-> 0, timeouts |-> 0,
   sleeps |-> <<>>, last_kind |-> "none", last_exc |-> "",
   status |-> "running", payload |-> NoPayload, text |-> EmptyText, exc |-> "",
   prompt |-> NoPrompt, image_parts |-> <<>>]

NoCall == [NewCall("none") EXCEPT !.status = "idle"]

\* Mutant of Backoff: the wait is not capped.
Backoff_Uncapped(attempt) == 2 ^ attempt

\* The wait before the attempt that follows attempt number `attempt`.
Backoff(attempt) == Min(2 ^ attempt, 8)

\* Mutant of RetryLeft: the bound is off by one.
RetryLeft_OffByOne(attempt) == ~(attempt > GEMINI_MAX_RETRIES)

\* Whether a timeout at attempt number `attempt` leaves a retry.
RetryLeft(attempt) == ~(attempt >= GEMINI_MAX_RETRIES)

\* Mutant of extract_text: a note instead of the empty string.
extract_text_NoContentNote(payload) ==
  IF payload.candidates = <<>> THEN Text(FALSE, "", 0, 10) ELSE payload.candidates[1]

RECURSIVE request_loop_sleeps(_, _, _)
\* Lines 665-692 for a setting max_retries of GEMINI_MAX_RETRIES: the waits
\* of the loop from attempt number `attempt` on, when the requests end as
\* kinds tells ("timeout", "response" or "error").
request_loop_sleeps(max_retries, kinds, attempt) ==
  IF attempt > max_retries \/ kinds = <<>> THEN <<>>
  ELSE IF Head(kinds) # "timeout" THEN <<>>
  ELSE IF attempt >= max_retries THEN <<>>
  ELSE <<Backoff(attempt)>> \o request_loop_sleeps(max_retries, Tail(kinds), attempt + 1)

\* Lines 697-705: the text of a decoded response.
extract_text(payload) ==
  IF payload.candidates = <<>> THEN EmptyText ELSE payload.candidates[1]

\* Lines 694-705: what _call_gemini does once the loop is left.
AfterLoop(c) ==
  IF c.last_exc # ""
    THEN [c EXCEPT !.status = "raised", !.exc = RequestFailed(c.last_exc)]
  ELSE IF ~c.payload.decodes
    THEN [c EXCEPT !.status = "raised",
                   !.exc = "Expecting value: line 1 column 1 (char 0)"]
  ELSE [c EXCEPT !.status = "returned", !.text = extract_text(c.payload)]

\* Mutant of OnResponse: last_exc is not reset.
OnResponse_KeepsLastExc(c, payload) ==
  AfterLoop([c EXCEPT !.payload = payload])

\* Lines 667-670: an attempt that got a 2xx response.
OnResponse(c, payload) ==
  AfterLoop([c EXCEPT !.last_exc = "", !.payload = payload])

\* Mutant of OnTimeout: one more attempt is made before the call gives up.
OnTimeout_OneMoreAttempt(c, text) ==
  LET c1 == [c EXCEPT !.last_exc = text, !.timeouts = @ + 1]
  IN IF c.attempt <= GEMINI_MAX_RETRIES
       THEN [c1 EXCEPT !.sleeps = Append(@, Backoff(c.attempt)),
                       !.attempt = @ + 1]
       ELSE AfterLoop(c1)

\* Lines 674-690: a timed-out attempt.
OnTimeout(c, text) ==
  LET c1 == [c EXCEPT !.last_exc = text, !.timeouts = @ + 1]
  IN IF RetryLeft(c.attempt)
       THEN [c1 EXCEPT !.sleeps = Append(@, Backoff(c.attempt)),
                       !.attempt = @ + 1]
       ELSE AfterLoop(c1)

\* Lines 665-692: one iteration of the request loop with the given outcome.
Attempt(c, outcome) ==
  LET c0 == [c EXCEPT !.requests = @ + 1, !.last_kind = OutcomeClass(outcome)]
  IN CASE outcome.kind = "response" -> OnResponse(c0, outcome.payload)
       [] outcome.kind = "http_error" ->
            [c0 EXCEPT !.status = "raised",
                       !.exc = "Gemini API error: " \o outcome.code \o " " \o outcome.detail]
       [] outcome.kind = "timeout" -> OnTimeout(c0, "timed out")
       [] outcome.kind = "url_error" ->
            IF outcome.reason = "timeout"
              THEN OnTimeout(c0, "<urlopen error timed out>")
              ELSE [c0 EXCEPT !.status = "raised",
                              !.exc = RequestFailed("<urlopen error " \o outcome.reason \o ">")]
       [] OTHER ->
            [c0 EXCEPT !.status = "raised", !.exc = RequestFailed(outcome.detail)]

(* ---------------------------------------------------------------------- *)
(* Escalation controller (handler, lines 728-803)                          *)
(* ---------------------------------------------------------------------- *)

\* Lines 728-744: the locals of handler at the start of a work unit.
\* article_from names the stage the current Article came from and warning
\* is the value error_message has at line 782, before the final message is
\* computed; neither is read by the program.
NewUnit(body, api_key, upload_ids) ==
  [article_id |-> body.article_id.v,
   run_id |-> body.run_id.v,
   title |-> FallbackTitle(body.article_id.v),
   api_key |-> api_key,
   upload_ids |-> upload_ids,
   photo_context |-> <<>>,
   image_parts |-> <<>>,
   markdown |-> EmptyMarkdown,
   model_used |-> GEMINI_MODEL,
   error_message |-> "",
   min_chars |-> min_chars_for_length(IF IsStr(body.length) THEN body.length.v ELSE "medium"),
   article_json |-> NoArticle,
   article_from |-> "none",
   warning |-> ""]

\* The failures the context assembly of a unit can meet: they vary for the
\* first record of an event, where the answers of the generative API do not.
UnitScenarios(range, upload_ids, first) ==
  IF upload_ids = <<>> \/ range = "full" \/ ~first THEN {"ok"}
  ELSE {"ok", "empty_data", "all_fail"}

\* Lines 738-739: photo context and attachments of the unit, every upload
\* id in the given scenario.
AssembleContext(u, scenario) ==
  [u EXCEPT
     !.photo_context =
        format_photo_context(u.upload_ids,
                             [i \in 1..Len(u.upload_ids) |->
                                ContextReadOf(u.upload_ids[i], scenario)]),
     !.image_parts =
        load_image_parts(u.upload_ids,
                         [i \in 1..Len(u.upload_ids) |->
                            ImageReadOf(u.upload_ids[i], scenario)]).parts]

\* Mutant of CallOf: the retry is sent without the attachments.
CallOf_RetryWithoutImages(stage, u) ==
  [NewCall(stage) EXCEPT
     !.prompt = IF stage = "expand" THEN build_expand_prompt(u.article_json, u.min_chars)
                ELSE build_prompt(u.upload_ids, u.photo_context, u.min_chars,
                                  stage = "retry"),
     !.image_parts = IF stage = "retry" THEN <<>> ELSE u.image_parts]

\* Lines 747-748, 757-765 and 771-775: the call of a stage with its
\* arguments.
CallOf(stage, u) ==
  [NewCall(stage) EXCEPT
     !.prompt = IF stage = "expand" THEN build_expand_prompt(u.article_json, u.min_chars)
                ELSE build_prompt(u.upload_ids, u.photo_context, u.min_chars,
                                  stage = "retry"),
     !.image_parts = u.image_parts]

NoUnit ==
  [article_id |-> "", run_id |-> "", title |-> "", api_key |-> <<>>,
   upload_ids |-> <<>>, photo_context |-> <<>>, image_parts |-> <<>>,
   markdown |-> EmptyMarkdown, model_used |-> GEMINI_MODEL,
   error_message |-> "", min_chars |-> 0, article_json |-> NoArticle,
   article_from |-> "none", warning |-> ""]

\* What one stage of a unit did: the text or exception its call gave, the
\* Article and warning the text gave, the prompt and attachments the call
\* was given and the number of HTTP requests it made.
StageNotRun ==
  [state |-> "not_run", article |-> NoArticle, warning |-> "", text |-> EmptyText,
   exc |-> "", prompt |-> NoPrompt, image_parts |-> <<>>, requests |-> 0]

Stages == {"initial", "retry", "expand"}

NoHistory == [s \in Stages |-> StageNotRun]

\* Lines 750-753: the initial result becomes the current Article.
InitialAssign(u, r) ==
  [u EXCEPT !.article_json = r.article, !.error_message = r.warning,
            !.warning = r.warning,
            !.article_from = IF r.article.present THEN "initial" ELSE "none"]

\* Mutant of RetryReplace: only a retry that is not shorter replaces.
RetryReplace_OnlyIfLonger(u, r) ==
  IF r.article.present
     /\ article_body_length(r.article) >= article_body_length(u.article_json)
    THEN [u EXCEPT !.article_json = r.article, !.error_message = r.warning,
                   !.warning = r.warning, !.article_from = "retry"]
    ELSE u

\* Lines 766-768: a parsed retry replaces the current Article.
RetryReplace(u, r) ==
  IF r.article.present
    THEN [u EXCEPT !.article_json = r.article, !.error_message = r.warning,
                   !.warning = r.warning, !.article_from = "retry"]
    ELSE u

\* Mutant of ExpandReplace: every parsed expansion replaces.
ExpandReplace_WheneverParsed(u, r) ==
  IF r.article.present
    THEN [u EXCEPT !.article_json = r.article, !.error_message = r.warning,
                   !.warning = r.warning, !.article_from = "expand"]
    ELSE u

\* Lines 779-781: an expansion replaces the current Article if not shorter.
ExpandReplace(u, r) ==
  IF r.article.present
     /\ article_body_length(r.article) >= article_body_length(u.article_json)
    THEN [u EXCEPT !.article_json = r.article, !.error_message = r.warning,
                   !.warning = r.warning, !.article_from = "expand"]
    ELSE u

\* Line 755.
NeedsRetry(u) == article_body_length(u.article_json) < u.min_chars

\* Mutant of NeedsExpand: the test that an Article exists is dropped.
NeedsExpand_WithoutArticle(u) ==
  article_body_length(u.article_json) < u.min_chars

\* Line 770.
NeedsExpand(u) ==
  u.article_json.present /\ article_body_length(u.article_json) < u.min_chars

\* Mutant of DoneMessage: a body that meets the floor keeps its warning.
DoneMessage_KeepsWarning(u) ==
  IF u.article_json.present /\ article_body_length(u.article_json) < u.min_chars
    THEN [u EXCEPT !.error_message =
            IF u.error_message = "" THEN ShortSuffix
            ELSE u.error_message \o " " \o ShortSuffix]
  ELSE u

\* Lines 783-787: the message once the chain has ended without an exception.
DoneMessage(u) ==
  IF u.article_json.present /\ article_body_length(u.article_json) < u.min_chars
    THEN [u EXCEPT !.error_message =
            IF u.error_message = "" THEN ShortSuffix
            ELSE u.error_message \o " " \o ShortSuffix]
  ELSE IF u.article_json.present /\ article_body_length(u.article_json) >= u.min_chars
    THEN [u EXCEPT !.error_message = ""]
  ELSE u

\* Mutant of OnException: the exception is swallowed.
OnException_Swallowed(u, text) == u

\* Lines 788-790: an exception of the chain.
OnException(u, text) == [u EXCEPT !.error_message = text]

\* Mutant of OnMissingKey: no message is recorded.
OnMissingKey_Silent(u) == u

\* Lines 791-792: no credential.
OnMissingKey(u) == [u EXCEPT !.error_message = MissingKeyMessage]

\* Mutant of Finalize: the placeholder always comes with the message of
\* line 803.
Finalize_OverwritesMessage(u) ==
  IF u.article_json.present
    THEN [u EXCEPT !.title = IF u.article_json.title = "" THEN u.title
                             ELSE u.article_json.title,
                   !.markdown = build_markdown_from_json(u.article_json)]
    ELSE [u EXCEPT !.markdown = build_markdown(u.title),
                   !.error_message = EmptyOutputMessage]

\* Lines 794-803: title and markdown of the outcome.
Finalize(u) ==
  IF u.article_json.present
    THEN [u EXCEPT !.title = IF u.article_json.title = "" THEN u.title
                             ELSE u.article_json.title,
                   !.markdown = build_markdown_from_json(u.article_json)]
    ELSE [u EXCEPT !.markdown = build_markdown(u.title),
                   !.error_message = IF u.error_message = "" THEN EmptyOutputMessage
                                     ELSE u.error_message]

\* Mutant of NextStage: a short Article is expanded without a retry.
NextStage_SkipsRetry(stage, u) ==
  IF stage \in {"initial", "retry"} /\ NeedsExpand(u) THEN "expand"
  ELSE IF stage = "initial" /\ NeedsRetry(u) THEN "retry"
  ELSE "done"

\* The stage that follows `stage` when its call returned and left locals u
\* ("done" when the chain ends).
NextStage(stage, u) ==
  IF stage = "initial" /\ NeedsRetry(u) THEN "retry"
  ELSE IF stage \in {"initial", "retry"} /\ NeedsExpand(u) THEN "expand"
  ELSE "done"

\* Mutant of Absorb: a retry Article is patched into the current one, whose
\* title stays.
Absorb_PatchesInPlace(stage, u, r) ==
  IF stage = "initial" THEN InitialAssign(u, r)
  ELSE IF stage = "retry"
    THEN IF r.article.present /\ u.article_json.present
           THEN [RetryReplace(u, r) EXCEPT !.article_json.title = u.article_json.title]
           ELSE RetryReplace(u, r)
  ELSE ExpandReplace(u, r)

\* The locals after the text of a returned call has been normalized.
Absorb(stage, u, r) ==
  IF stage = "initial" THEN InitialAssign(u, r)
  ELSE IF stage = "retry" THEN RetryReplace(u, r)
  ELSE ExpandReplace(u, r)

(* ---------------------------------------------------------------------- *)
(* What the generative API can answer to one request                       *)
(* ---------------------------------------------------------------------- *)

Outcome(kind, payload, code, reason, detail) ==
  [kind |-> kind, payload |-> payload, code |-> code, reason |-> reason,
   detail |-> detail]

Response(payload) == Outcome("response", payload, "", "", "")

JsonText(title, n) == Text(TRUE, title, n, n + 20)

MarkdownText(title, n) == Text(FALSE, title, 0, n)

\* The texts a candidate can carry for a unit whose floor is min_chars.
ModelTexts(min_chars) ==
  {EmptyText, JsonText("", 0), JsonText("", TinyBody), MarkdownText("Trip", TinyBody),
   MarkdownText("Trip", min_chars)}
    \cup {JsonText("Trip", n) : n \in {TinyBody, min_chars - 1, min_chars}}

FullOutcomes(min_chars) ==
  {Response(Payload(TRUE, <<t>>)) : t \in ModelTexts(min_chars)}
    \cup {Response(Payload(TRUE, <<>>)),
          Response(Payload(FALSE, <<>>)),
          Response(Payload(TRUE, <<EmptyText, JsonText("Trip", min_chars)>>)),
          Outcome("http_error", NoPayload, "503", "", "overloaded"),
          Outcome("timeout", NoPayload, "", "", ""),
          Outcome("url_error", NoPayload, "", "timeout", ""),
          Outcome("url_error", NoPayload, "", "[Errno 111] Connection refused", ""),
          Outcome("other_error", NoPayload, "", "",
                  "Remote end closed connection without response")}

ReducedOutcomes(min_chars) ==
  {Response(Payload(TRUE, <<JsonText("Trip", min_chars)>>)),
   Response(Payload(TRUE, <<>>)),
   Outcome("http_error", NoPayload, "503", "", "overloaded")}

\* Timeouts, an error, a short output and one that meets the floor.
TimeoutOutcomes(min_chars) ==
  {Response(Payload(TRUE, <<JsonText("Trip", TinyBody)>>)),
   Response(Payload(TRUE, <<JsonText("Trip", min_chars)>>)),
   Outcome("http_error", NoPayload, "503", "", "overloaded"),
   Outcome("timeout", NoPayload, "", "", ""),
   Outcome("url_error", NoPayload, "", "timeout", "")}

Outcomes(range, min_chars) ==
  IF range = "full" THEN FullOutcomes(min_chars)
  ELSE IF range = "timeouts" THEN TimeoutOutcomes(min_chars)
  ELSE ReducedOutcomes(min_chars)

(* ---------------------------------------------------------------------- *)
(* State                                                                   *)
(* ---------------------------------------------------------------------- *)

VARIABLES
  event,          \* the bodies of event["Records"]
  api_range,      \* the range of answers the generative API gives in this run
  idx,            \* number of records the loop of handler has left behind
  pc,             \* where handler stands
  API_KEY_CACHE,  \* the module global _API_KEY_CACHE
  articles,       \* the article registry
  runs,           \* the run registry
  unit,           \* the locals of handler for the current record
  call,           \* the locals of the current (or last) _call_gemini
  hist,           \* per stage of the unit, what its call gave
  updates,        \* per record of the event, the registry updates made for it
  lookups,        \* per record of the event, the context lookups made for it
  prev,           \* the unit written last before the current one, and its outcome
  workers,        \* the worker processes of SpecWorkers
  pure,           \* the function application of SpecPure
  secret_calls,   \* the get_secret_value calls the worker process has made
  http,           \* the invocations of the HTTP handlers
  queue,          \* the messages sent to the generation queue
  uploads,        \* the upload registry
  metadata,       \* the metadata registry
  exif_queue,     \* the messages sent to the EXIF queue
  exif            \* the invocations of the EXIF worker

\* The variables of the HTTP handlers and of the EXIF worker.
site == <<http, queue, uploads, metadata, exif_queue, exif>>

vars == <<event, api_range, idx, pc, API_KEY_CACHE, articles, runs, unit, call,
          hist, updates, lookups, prev, workers, pure, secret_calls, site>>

\* The variables of the other specifications.
aside == <<workers, pure, secret_calls, site>>

AbsentValue == [status |-> "absent"]

PendingArticle ==
  [status |-> "draft_pending", title |-> "", body_markdown |-> EmptyMarkdown,
   body_json |-> AbsentValue, derived_from_upload_ids |-> SentUploadIds]

QueuedRun == [status |-> "queued", model |-> "", error_message |-> ""]

\* No lookup made: neither the context assembly of lines 732-739 ran nor was
\* the article item read by _resolve_upload_ids.
NoLookup == [context |-> 0, article_read |-> "none"]

NoPrev ==
  [set |-> FALSE, body |-> NotJsonBody, hist |-> NoHistory, upload_ids |-> <<>>,
   lookup |-> NoLookup, article |-> PendingArticle, run |-> QueuedRun]

NoWorkers == <<>>

NoApplication == [op |-> "none", input |-> <<>>, done |-> FALSE, output |-> <<>>]

\* No HTTP handler and no EXIF worker runs, and nothing was sent.
SiteIdle ==
  /\ http = <<>>
  /\ queue = {}
  /\ uploads = <<>>
  /\ metadata = <<>>
  /\ exif_queue = {}
  /\ exif = <<>>

\* One record: the units are those generate-article sent.
SingleBodies ==
  {b \in RecordBodies : b.form = "object" => b.upload_ids = SentUploadIds}

\* Events of up to MaxRecords records over default-length units.
BatchBodies ==
  {b \in RecordBodies : b.form = "object" => b.length = Null}

SeqsUpTo(S, n) == UNION {[1..k -> S] : k \in 1..n}

InitCommon ==
  /\ idx = 0
  /\ pc = "loop"
  /\ API_KEY_CACHE = NoneValue
  /\ articles = [a \in ArticleIds |-> PendingArticle]
  /\ runs = [r \in RunIds |-> QueuedRun]
  /\ unit = NoUnit
  /\ call = NoCall
  /\ hist = NoHistory
  /\ updates = [i \in 1..Len(event) |-> [article |-> 0, run |-> 0]]
  /\ lookups = [i \in 1..Len(event) |-> NoLookup]
  /\ prev = NoPrev
  /\ workers = NoWorkers
  /\ pure = NoApplication
  /\ secret_calls = 0
  /\ SiteIdle

\* One record, any body, the full range of answers.
InitSingle ==
  /\ api_range = "full"
  /\ event \in {<<b>> : b \in SingleBodies}
  /\ InitCommon

\* Several records, a reduced range of answers.
InitBatch ==
  /\ api_range = "reduced"
  /\ event \in SeqsUpTo(BatchBodies, MaxRecords)
  /\ InitCommon

Init == InitSingle \/ InitBatch

(* ---------------------------------------------------------------------- *)
(* Actions                                                                 *)
(* ---------------------------------------------------------------------- *)

AtRecord == pc = "loop" /\ idx < Len(event)

Body == event[idx + 1]

\* Mutant of HasIds: only run_id is tested.
HasIds_RunIdOnly(b) == IsStr(b.run_id)

\* Line 725.
HasIds(b) == IsStr(b.article_id) /\ IsStr(b.run_id)

\* Lines 718-721: the body is not JSON.
SkipUndecodable ==
  /\ AtRecord
  /\ Body.form = "not_json"
  /\ idx' = idx + 1
  /\ UNCHANGED <<event, api_range, pc, API_KEY_CACHE, articles, runs, unit, call,
                 hist, updates, lookups, prev>>
  /\ UNCHANGED aside

\* Line 723: payload.get on a JSON value that is no object raises.
RaiseOnNonObject ==
  /\ AtRecord
  /\ Body.form = "non_object"
  /\ pc' = "raised"
  /\ UNCHANGED <<event, api_range, idx, API_KEY_CACHE, articles, runs, unit, call,
                 hist, updates, lookups, prev>>
  /\ UNCHANGED aside

\* Lines 723-726: an id is missing or no string.
SkipWithoutIds ==
  /\ AtRecord
  /\ Body.form = "object"
  /\ ~HasIds(Body)
  /\ idx' = idx + 1
  /\ UNCHANGED <<event, api_range, pc, API_KEY_CACHE, articles, runs, unit, call,
                 hist, updates, lookups, prev>>
  /\ UNCHANGED aside

\* The lookups of a unit that starts: read_ok tells whether the get_item of
\* _resolve_upload_ids (made only when the payload has no upload id) gave
\* the item.
LookupsOf(body, read_ok) ==
  [context |-> 1,
   article_read |-> IF payload_has_upload_ids(body) THEN "none"
                    ELSE IF read_ok THEN "ok" ELSE "failed"]

\* The record of the unit processed last among the first idx records.
LastUnitIndex ==
  SetMax({i \in 1..idx : event[i].form = "object" /\ HasIds(event[i])})

\* The unit processed last, as the next unit finds it.
Snapshot ==
  IF unit = NoUnit THEN NoPrev
  ELSE [set |-> TRUE, body |-> event[LastUnitIndex], hist |-> hist,
        upload_ids |-> unit.upload_ids, lookup |-> lookups[LastUnitIndex],
        article |-> articles[unit.article_id], run |-> runs[unit.run_id]]

\* Lines 728-748 (and 791-803 without a credential).
BeginUnit ==
  /\ AtRecord
  /\ Body.form = "object"
  /\ HasIds(Body)
  /\ \E answer \in ProcessSecretAnswers, read_ok \in BOOLEAN,
        scenario \in PhotoScenarios :
       LET key == IF API_KEY_CACHE.some THEN API_KEY_CACHE.v ELSE get_api_key(answer)
           item == articles[Body.article_id.v]
           derived == IF read_ok THEN item.derived_from_upload_ids ELSE PyNone
           upload_ids == resolve_upload_ids(Body, derived)
           u == AssembleContext(NewUnit(Body, key, upload_ids), scenario)
       IN /\ payload_has_upload_ids(Body) => read_ok
          /\ scenario \in UnitScenarios(api_range, upload_ids, idx = 0)
          /\ API_KEY_CACHE' = Some(key)
          /\ secret_calls' = secret_calls + SecretCalls(API_KEY_CACHE, answer)
          /\ lookups' = [lookups EXCEPT ![idx + 1] = LookupsOf(Body, read_ok)]
          /\ IF key # <<>>
               THEN /\ unit' = u
                    /\ call' = CallOf("initial", u)
                    /\ pc' = "urlopen"
               ELSE /\ unit' = Finalize(OnMissingKey(u))
                    /\ call' = NoCall
                    /\ pc' = "update_article"
  /\ hist' = NoHistory
  /\ prev' = Snapshot
  /\ UNCHANGED <<event, api_range, idx, articles, runs, updates>>
  /\ UNCHANGED <<workers, pure, site>>

\* Lines 665-705: one request of _call_gemini and what the loop does with
\* its outcome.
Urlopen ==
  /\ pc = "urlopen"
  /\ \E o \in Outcomes(api_range, unit.min_chars) :
       /\ call' = Attempt(call, o)
       /\ pc' = IF call'.status = "running" THEN "urlopen" ELSE "after_call"
  /\ UNCHANGED <<event, api_range, idx, API_KEY_CACHE, articles, runs, unit, hist,
                 updates, lookups, prev>>
  /\ UNCHANGED aside

\* Lines 749-803: handler takes the result of the call: normalization, the
\* next stage or the end of the chain.
Proceed ==
  /\ pc = "after_call"
  /\ IF call.status = "raised"
       THEN /\ unit' = Finalize(OnException(unit, call.exc))
            /\ hist' = [hist EXCEPT ![call.stage] =
                          [state |-> "raised", article |-> NoArticle, warning |-> "",
                           text |-> EmptyText, exc |-> call.exc, prompt |-> call.prompt,
                           image_parts |-> call.image_parts,
                           requests |-> call.requests]]
            /\ pc' = "update_article"
            /\ call' = call
       ELSE LET r == coerce_response_to_article_json(call.text, unit.title)
                u1 == Absorb(call.stage, unit, r)
                nxt == NextStage(call.stage, u1)
            IN /\ hist' = [hist EXCEPT ![call.stage] =
                             [state |-> "returned", article |-> r.article,
                              warning |-> r.warning, text |-> call.text, exc |-> "",
                              prompt |-> call.prompt, image_parts |-> call.image_parts,
                              requests |-> call.requests]]
               /\ IF nxt = "done"
                    THEN /\ unit' = Finalize(DoneMessage(u1))
                         /\ pc' = "update_article"
                         /\ call' = call
                    ELSE /\ unit' = u1
                         /\ call' = CallOf(nxt, u1)
                         /\ pc' = "urlopen"
  /\ UNCHANGED <<event, api_range, idx, API_KEY_CACHE, articles, runs, updates,
                 lookups, prev>>
  /\ UNCHANGED aside

\* Mutant of article_key: every unit is stored under the same key.
article_key_Shared(u) == "a1"

\* Line 806: the key of the article item a unit updates.
article_key(u) == u.article_id

\* Line 822: the key of the run item a unit updates.
run_key(u) == u.run_id

\* Mutant of article_update: the item is replaced as a whole.
article_update_PutItem(item, u) ==
  [status |-> "draft", title |-> u.title, body_markdown |-> u.markdown,
   body_json |-> IF u.article_json.present THEN u.article_json ELSE FallbackBodyJson,
   derived_from_upload_ids |-> PyNone]

\* Lines 805-819: the item after the update_item of the article registry
\* (updated_at is left out).
article_update(item, u) ==
  [item EXCEPT !.status = "draft", !.title = u.title, !.body_markdown = u.markdown,
               !.body_json = IF u.article_json.present THEN u.article_json
                             ELSE FallbackBodyJson]

\* Lines 821-833: the item after the update_item of the run registry
\* (updated_at is left out).
run_update(item, u) ==
  [item EXCEPT !.status = "completed", !.model = u.model_used,
               !.error_message = u.error_message]

\* Lines 805-819.
UpdateArticle ==
  /\ pc = "update_article"
  /\ articles' = [articles EXCEPT ![article_key(unit)] = article_update(@, unit)]
  /\ updates' = [updates EXCEPT ![idx + 1].article = @ + 1]
  /\ pc' = "update_run"
  /\ UNCHANGED <<event, api_range, idx, API_KEY_CACHE, runs, unit, call, hist,
                 lookups, prev>>
  /\ UNCHANGED aside

\* Lines 821-833, and the loop goes on to the next record.
UpdateRun ==
  /\ pc = "update_run"
  /\ runs' = [runs EXCEPT ![run_key(unit)] = run_update(@, unit)]
  /\ updates' = [updates EXCEPT ![idx + 1].run = @ + 1]
  /\ idx' = idx + 1
  /\ pc' = "loop"
  /\ UNCHANGED <<event, api_range, API_KEY_CACHE, articles, unit, call, hist,
                 lookups, prev>>
  /\ UNCHANGED aside

\* Line 717: no record is left, handler returns.
Return ==
  /\ pc = "loop"
  /\ idx = Len(event)
  /\ pc' = "returned"
  /\ UNCHANGED <<event, api_range, idx, API_KEY_CACHE, articles, runs, unit, call,
                 hist, updates, lookups, prev>>
  /\ UNCHANGED aside

Next ==
  \/ SkipUndecodable
  \/ RaiseOnNonObject
  \/ SkipWithoutIds
  \/ BeginUnit
  \/ Urlopen
  \/ Proceed
  \/ UpdateArticle
  \/ UpdateRun
  \/ Return

Spec == Init /\ [][Next]_vars

\* One record, any body; the API times out, fails, or answers with a short
\* or a sufficient output.
InitFair ==
  /\ api_range = "timeouts"
  /\ event \in {<<b>> : b \in SingleBodies}
  /\ InitCommon

\* handler is sequential code in which every request ends (urlopen has a
\* timeout, line 667) and every wait is finite (line 680): once a unit has
\* begun, the step that can be taken is taken.
SpecFair ==
  /\ InitFair
  /\ [][Next]_vars
  /\ WF_vars(Urlopen)
  /\ WF_vars(Proceed)
  /\ WF_vars(UpdateArticle)
  /\ WF_vars(UpdateRun)


(* ---------------------------------------------------------------------- *)
(* Concurrent workers                                                      *)
(* ---------------------------------------------------------------------- *)

\* Two worker processes (two Lambda execution environments), each invoked
\* with an event of one record: event[w] is the body delivered to worker w.
\* A process has its own module globals, hence its own _API_KEY_CACHE, and
\* its own locals; the registries are shared.
WorkerIds == {1, 2}

IdleWorker ==
  [pc |-> "loop", API_KEY_CACHE |-> NoneValue, unit |-> NoUnit, call |-> NoCall,
   hist |-> NoHistory, lookup |-> NoLookup, updates |-> [article |-> 0, run |-> 0]]

\* The default-length units with the ids of the pair p.
UnitBodies(p) == {ObjectBody(Str(p[1]), Str(p[2]), Null, u) : u \in UploadIdValues}

InitWorkers ==
  /\ api_range = "reduced"
  /\ event \in {<<b1, b2>> : b1 \in UnitBodies(<<"a1", "r1">>),
                             b2 \in UnitBodies(<<"a2", "r2">>)}
  /\ idx = 0
  /\ pc = "workers"
  /\ API_KEY_CACHE = NoneValue
  /\ articles = [a \in ArticleIds |-> PendingArticle]
  /\ runs = [r \in RunIds |-> QueuedRun]
  /\ unit = NoUnit
  /\ call = NoCall
  /\ hist = NoHistory
  /\ updates = [i \in 1..Len(event) |-> [article |-> 0, run |-> 0]]
  /\ lookups = [i \in 1..Len(event) |-> NoLookup]
  /\ prev = NoPrev
  /\ workers = [w \in WorkerIds |-> IdleWorker]
  /\ pure = NoApplication
  /\ secret_calls = 0
  /\ SiteIdle

\* The variables only Spec and SpecPure change.
besides ==
  <<event, api_range, idx, pc, API_KEY_CACHE, unit, call, hist, updates, lookups,
    prev, pure, secret_calls, site>>

\* Lines 717-748 in worker w (and 791-803 without a credential).
WorkerBegin(w) ==
  /\ workers[w].pc = "loop"
  /\ \E answer \in ProcessSecretAnswers, read_ok \in BOOLEAN :
       LET key == get_api_key(answer)
           item == articles[event[w].article_id.v]
           derived == IF read_ok THEN item.derived_from_upload_ids ELSE PyNone
           u == AssembleContext(NewUnit(event[w], key,
                                        resolve_upload_ids(event[w], derived)), "ok")
       IN /\ payload_has_upload_ids(event[w]) => read_ok
          /\ workers' = [workers EXCEPT ![w] =
               IF key # <<>>
                 THEN [@ EXCEPT !.pc = "urlopen", !.API_KEY_CACHE = Some(key),
                                !.unit = u, !.call = CallOf("initial", u),
                                !.lookup = LookupsOf(event[w], read_ok)]
                 ELSE [@ EXCEPT !.pc = "update_article", !.API_KEY_CACHE = Some(key),
                                !.unit = Finalize(OnMissingKey(u)),
                                !.lookup = LookupsOf(event[w], read_ok)]]
  /\ UNCHANGED <<articles, runs>>
  /\ UNCHANGED besides

\* Lines 665-705 in worker w.
WorkerUrlopen(w) ==
  /\ workers[w].pc = "urlopen"
  /\ \E o \in Outcomes(api_range, workers[w].unit.min_chars) :
       LET c == Attempt(workers[w].call, o)
       IN workers' = [workers EXCEPT ![w].call = c,
                                     ![w].pc = IF c.status = "running" THEN "urlopen"
                                               ELSE "after_call"]
  /\ UNCHANGED <<articles, runs>>
  /\ UNCHANGED besides

\* Lines 749-803 in worker w.
WorkerProceed(w) ==
  /\ workers[w].pc = "after_call"
  /\ LET me == workers[w]
         r == coerce_response_to_article_json(me.call.text, me.unit.title)
         u1 == Absorb(me.call.stage, me.unit, r)
         nxt == NextStage(me.call.stage, u1)
     IN workers' = [workers EXCEPT ![w] =
          IF me.call.status = "raised"
            THEN [me EXCEPT !.unit = Finalize(OnException(me.unit, me.call.exc)),
                            !.hist[me.call.stage] =
                              [state |-> "raised", article |-> NoArticle, warning |-> "",
                               text |-> EmptyText, exc |-> me.call.exc,
                               prompt |-> me.call.prompt,
                               image_parts |-> me.call.image_parts,
                               requests |-> me.call.requests],
                            !.pc = "update_article"]
          ELSE IF nxt = "done"
            THEN [me EXCEPT !.unit = Finalize(DoneMessage(u1)),
                            !.hist[me.call.stage] =
                              [state |-> "returned", article |-> r.article,
                               warning |-> r.warning, text |-> me.call.text, exc |-> "",
                               prompt |-> me.call.prompt,
                               image_parts |-> me.call.image_parts,
                               requests |-> me.call.requests],
                            !.pc = "update_article"]
          ELSE [me EXCEPT !.unit = u1,
                          !.hist[me.call.stage] =
                            [state |-> "returned", article |-> r.article,
                             warning |-> r.warning, text |-> me.call.text, exc |-> "",
                             prompt |-> me.call.prompt,
                             image_parts |-> me.call.image_parts,
                             requests |-> me.call.requests],
                          !.call = CallOf(nxt, u1),
                          !.pc = "urlopen"]]
  /\ UNCHANGED <<articles, runs>>
  /\ UNCHANGED besides

\* Lines 805-819 in worker w.
WorkerUpdateArticle(w) ==
  /\ workers[w].pc = "update_article"
  /\ articles' = [articles EXCEPT ![article_key(workers[w].unit)] =
                    article_update(@, workers[w].unit)]
  /\ workers' = [workers EXCEPT ![w].pc = "update_run", ![w].updates.article = @ + 1]
  /\ UNCHANGED runs
  /\ UNCHANGED besides

\* Lines 821-833 in worker w; its handler returns.
WorkerUpdateRun(w) ==
  /\ workers[w].pc = "update_run"
  /\ runs' = [runs EXCEPT ![run_key(workers[w].unit)] = run_update(@, workers[w].unit)]
  /\ workers' = [workers EXCEPT ![w].pc = "returned", ![w].updates.run = @ + 1]
  /\ UNCHANGED articles
  /\ UNCHANGED besides

NextWorkers ==
  \E w \in WorkerIds :
    \/ WorkerBegin(w)
    \/ WorkerUrlopen(w)
    \/ WorkerProceed(w)
    \/ WorkerUpdateArticle(w)
    \/ WorkerUpdateRun(w)

SpecWorkers == InitWorkers /\ [][NextWorkers]_vars

(* ---------------------------------------------------------------------- *)
(* The HTTP handlers generate-article and regenerate-article, the           *)
(* generation queue and the workers it feeds                                *)
(* ---------------------------------------------------------------------- *)

\* The handler invocations a behaviour follows.
MaxInvocations == 2

\* uuid4 (lines 50-51 of generate_article.py, line 51 of
\* regenerate_article.py): an id no invocation has drawn; the ids are drawn
\* in this order.
ArticleIdOrder == <<"a1", "a2">>

RunIdOrder == <<"r1", "r2">>

DrawnArticleIds == {http[i].article_id : i \in 1..Len(http)} \cap ArticleIds

DrawnRunIds == {http[i].run_id : i \in 1..Len(http)} \cap RunIds

Fresh(order, drawn) ==
  order[CHOOSE i \in 1..Len(order) :
          order[i] \notin drawn /\ \A j \in 1..(i - 1) : order[j] \in drawn]

\* An item a registry does not hold.
NoArticleItem ==
  [status |-> "absent", title |-> "", body_markdown |-> EmptyMarkdown,
   body_json |-> AbsentValue, derived_from_upload_ids |-> PyNone]

NoRunItem == [status |-> "absent", model |-> "", error_message |-> ""]

\* One invocation of a handler: the call it makes next, the ids it drew and
\* the status code of its response (0 while it runs).
Invocation(handler, at, article_id, run_id, status) ==
  [handler |-> handler, pc |-> at, article_id |-> article_id, run_id |-> run_id,
   status |-> status]

\* Mutant of GenerateOrder: the message is sent before the items are put.
GenerateOrder_SendFirst == <<"send", "put_article", "put_run">>

\* generate_article.py lines 54-98: the calls of an accepted request, in
\* the order of the code.
GenerateOrder == <<"put_article", "put_run", "send">>

\* regenerate_article.py lines 54-93.
RegenerateOrder == <<"put_run", "update_article", "send">>

\* The call after the call at, or the return of the handler.
StepAfter(order, at) ==
  LET i == CHOOSE k \in 1..Len(order) : order[k] = at
  IN IF i < Len(order) THEN order[i + 1] ELSE "returned"

\* The requests generate-article tells apart (lines 35-48): a deployment
\* without its configuration, a body that is not JSON, a body without a
\* non-empty upload_ids list, and a request it accepts.
GenerateRequests == {"unconfigured", "invalid_json", "no_upload_ids", "accepted"}

\* Lines 36, 44 and 48: the status code of a rejection.
GenerateRejection(request) == IF request = "unconfigured" THEN 500 ELSE 400

\* generate_article.py lines 84-98 (tone, language, privacy_level and
\* instruction are left out, as in the worker).
GenerateMessage(article_id, run_id) ==
  ObjectBody(Str(article_id), Str(run_id), Str("medium"), SentUploadIds)

\* regenerate_article.py lines 80-93: the message has no upload_ids.
RegenerateMessage(article_id, run_id) ==
  ObjectBody(Str(article_id), Str(run_id), Str("medium"), PyNone)

InitSite ==
  /\ api_range = "reduced"
  /\ event = [w \in WorkerIds |-> NotJsonBody]
  /\ idx = 0
  /\ pc = "site"
  /\ API_KEY_CACHE = NoneValue
  /\ articles = [a \in ArticleIds |-> NoArticleItem]
  /\ runs = [r \in RunIds |-> NoRunItem]
  /\ unit = NoUnit
  /\ call = NoCall
  /\ hist = NoHistory
  /\ updates = [i \in 1..Len(event) |-> [article |-> 0, run |-> 0]]
  /\ lookups = [i \in 1..Len(event) |-> NoLookup]
  /\ prev = NoPrev
  /\ workers = [w \in WorkerIds |-> [IdleWorker EXCEPT !.pc = "idle"]]
  /\ pure = NoApplication
  /\ secret_calls = 0
  /\ SiteIdle

\* What the handlers leave alone.
offsite ==
  <<event, api_range, idx, pc, API_KEY_CACHE, unit, call, hist, updates, lookups,
    prev, workers, pure, secret_calls, uploads, metadata, exif_queue, exif>>

\* generate_article.py lines 34-51: a request arrives; a rejected one is
\* answered at once (lines 36, 44, 48), an accepted one draws its ids.
GenerateStart ==
  /\ Len(http) < MaxInvocations
  /\ \E request \in GenerateRequests :
       IF request = "accepted"
         THEN /\ ArticleIds \ DrawnArticleIds # {}
              /\ RunIds \ DrawnRunIds # {}
              /\ http' = Append(http,
                   Invocation("generate", GenerateOrder[1],
                              Fresh(ArticleIdOrder, DrawnArticleIds),
                              Fresh(RunIdOrder, DrawnRunIds), 0))
         ELSE http' = Append(http,
                Invocation("generate", "returned", "", "", GenerateRejection(request)))
  /\ UNCHANGED <<articles, runs, queue>>
  /\ UNCHANGED offsite

\* generate_article.py lines 54-66.
GeneratePutArticle(i) ==
  /\ i \in 1..Len(http)
  /\ http[i].handler = "generate"
  /\ http[i].pc = "put_article"
  /\ articles' = [articles EXCEPT ![http[i].article_id] =
       [status |-> "draft_pending", title |-> "", body_markdown |-> EmptyMarkdown,
        body_json |-> AbsentValue, derived_from_upload_ids |-> SentUploadIds]]
  /\ http' = [http EXCEPT ![i].pc = StepAfter(GenerateOrder, "put_article")]
  /\ UNCHANGED <<runs, queue>>
  /\ UNCHANGED offsite

\* generate_article.py lines 68-82.
GeneratePutRun(i) ==
  /\ i \in 1..Len(http)
  /\ http[i].handler = "generate"
  /\ http[i].pc = "put_run"
  /\ runs' = [runs EXCEPT ![http[i].run_id] = QueuedRun]
  /\ http' = [http EXCEPT ![i].pc = StepAfter(GenerateOrder, "put_run")]
  /\ UNCHANGED <<articles, queue>>
  /\ UNCHANGED offsite

\* generate_article.py lines 84-100: the message is sent and the request
\* answered.
GenerateSend(i) ==
  /\ i \in 1..Len(http)
  /\ http[i].handler = "generate"
  /\ http[i].pc = "send"
  /\ queue' = queue \cup {GenerateMessage(http[i].article_id, http[i].run_id)}
  /\ http' = [http EXCEPT ![i].pc = StepAfter(GenerateOrder, "send"),
                           ![i].status = 200]
  /\ UNCHANGED <<articles, runs>>
  /\ UNCHANGED offsite

\* The articles whose id a client holds: those of the generate-article
\* requests that were answered (line 100).
KnownArticleIds ==
  {http[i].article_id : i \in {k \in 1..Len(http) : /\ http[k].handler = "generate"
                                                     /\ http[k].pc = "returned"
                                                     /\ http[k].status = 200}}

\* regenerate_article.py lines 34-52: a request for an article a client
\* knows; a request without articleId or with a body that is not JSON is
\* rejected (lines 41, 49).
RegenerateStart ==
  /\ Len(http) < MaxInvocations
  /\ \/ http' = Append(http, Invocation("regenerate", "returned", "", "", 400))
     \/ \E a \in KnownArticleIds :
          /\ RunIds \ DrawnRunIds # {}
          /\ http' = Append(http,
               Invocation("regenerate", RegenerateOrder[1], a,
                          Fresh(RunIdOrder, DrawnRunIds), 0))
  /\ UNCHANGED <<articles, runs, queue>>
  /\ UNCHANGED offsite

\* regenerate_article.py lines 54-67.
RegeneratePutRun(i) ==
  /\ i \in 1..Len(http)
  /\ http[i].handler = "regenerate"
  /\ http[i].pc = "put_run"
  /\ runs' = [runs EXCEPT ![http[i].run_id] = QueuedRun]
  /\ http' = [http EXCEPT ![i].pc = StepAfter(RegenerateOrder, "put_run")]
  /\ UNCHANGED <<articles, queue>>
  /\ UNCHANGED offsite

\* regenerate_article.py lines 69-78.
RegenerateUpdateArticle(i) ==
  /\ i \in 1..Len(http)
  /\ http[i].handler = "regenerate"
  /\ http[i].pc = "update_article"
  /\ articles' = [articles EXCEPT ![http[i].article_id].status = "draft_pending"]
  /\ http' = [http EXCEPT ![i].pc = StepAfter(RegenerateOrder, "update_article")]
  /\ UNCHANGED <<runs, queue>>
  /\ UNCHANGED offsite

\* regenerate_article.py lines 80-95: the message is sent and the request
\* answered.
RegenerateSend(i) ==
  /\ i \in 1..Len(http)
  /\ http[i].handler = "regenerate"
  /\ http[i].pc = "send"
  /\ queue' = queue \cup {RegenerateMessage(http[i].article_id, http[i].run_id)}
  /\ http' = [http EXCEPT ![i].pc = StepAfter(RegenerateOrder, "send"),
                           ![i].status = 200]
  /\ UNCHANGED <<articles, runs>>
  /\ UNCHANGED offsite

\* A call of lines 54-98 of generate_article.py raises (the handler catches
\* nothing): the invocation ends there and the platform answers 502.
GenerateRaises(i) ==
  /\ i \in 1..Len(http)
  /\ http[i].handler = "generate"
  /\ http[i].pc \in {"put_article", "put_run", "send"}
  /\ http' = [http EXCEPT ![i].pc = "raised", ![i].status = 502]
  /\ UNCHANGED <<articles, runs, queue>>
  /\ UNCHANGED offsite

\* A call of lines 54-93 of regenerate_article.py raises.
RegenerateRaises(i) ==
  /\ i \in 1..Len(http)
  /\ http[i].handler = "regenerate"
  /\ http[i].pc \in {"put_run", "update_article", "send"}
  /\ http' = [http EXCEPT ![i].pc = "raised", ![i].status = 502]
  /\ UNCHANGED <<articles, runs, queue>>
  /\ UNCHANGED offsite

\* The queue hands a message it holds to a worker that waits: under
\* at-least-once delivery a message that was handed out can be handed out
\* again, to the other worker too.
Deliver(w) ==
  /\ workers[w].pc = "idle"
  /\ \E m \in queue :
       /\ event' = [event EXCEPT ![w] = m]
       /\ workers' = [workers EXCEPT ![w].pc = "loop"]
  /\ UNCHANGED <<api_range, idx, pc, API_KEY_CACHE, articles, runs, unit, call, hist,
                 updates, lookups, prev, pure, secret_calls, site>>

NextSite ==
  \/ GenerateStart
  \/ RegenerateStart
  \/ \E i \in 1..MaxInvocations :
       \/ GeneratePutArticle(i)
       \/ GeneratePutRun(i)
       \/ GenerateSend(i)
       \/ GenerateRaises(i)
       \/ RegeneratePutRun(i)
       \/ RegenerateUpdateArticle(i)
       \/ RegenerateSend(i)
       \/ RegenerateRaises(i)
  \/ \E w \in WorkerIds :
       \/ Deliver(w)
       \/ WorkerBegin(w)
       \/ WorkerUrlopen(w)
       \/ WorkerProceed(w)
       \/ WorkerUpdateArticle(w)
       \/ WorkerUpdateRun(w)

SpecSite == InitSite /\ [][NextSite]_vars

(* ---------------------------------------------------------------------- *)
(* The upload registry: create-upload, complete-upload and the EXIF worker  *)
(* ---------------------------------------------------------------------- *)

\* The invocations of create-upload and complete-upload a behaviour follows.
MaxUploadCalls == 3

\* uuid4 (create_upload.py line 61): the ids are drawn in this order.
UploadIdOrder == <<"u1", "u2">>

UploadIds == {UploadIdOrder[i] : i \in 1..Len(UploadIdOrder)}

ExifWorkerIds == {1, 2}

\* An upload item: its status and who wrote its original_image_uri.
UploadItem(status, uri) == [status |-> status, original_image_uri |-> uri]

NoUploadItem == UploadItem("absent", "none")

\* A metadata item: located tells whether it has object_bucket, object_key
\* and s3_uri (exif_worker.py lines 86-88).
MetadataItem(present, located) == [present |-> present, located |-> located]

NoMetadataItem == MetadataItem(FALSE, FALSE)

\* One invocation of an upload handler.
UploadCall(handler, at, upload_id, status) ==
  [handler |-> handler, pc |-> at, upload_id |-> upload_id, status |-> status]

\* complete_upload.py line 67: the message names the upload.
ExifMessage(upload_id) == [upload_id |-> upload_id]

IdleExifWorker == [pc |-> "idle", upload_id |-> "", located |-> FALSE]

DrawnUploadIds == {http[i].upload_id : i \in 1..Len(http)} \cap UploadIds

\* The uploads whose id a client holds: create-upload answered with it
\* (create_upload.py lines 84-92).
CreatedUploadIds ==
  {http[i].upload_id : i \in {k \in 1..Len(http) : /\ http[k].handler = "create"
                                                    /\ http[k].status = 200}}

InitUploads ==
  /\ api_range = "reduced"
  /\ event = <<>>
  /\ idx = 0
  /\ pc = "uploads"
  /\ API_KEY_CACHE = NoneValue
  /\ articles = [a \in ArticleIds |-> NoArticleItem]
  /\ runs = [r \in RunIds |-> NoRunItem]
  /\ unit = NoUnit
  /\ call = NoCall
  /\ hist = NoHistory
  /\ updates = <<>>
  /\ lookups = <<>>
  /\ prev = NoPrev
  /\ workers = NoWorkers
  /\ pure = NoApplication
  /\ secret_calls = 0
  /\ http = <<>>
  /\ queue = {}
  /\ uploads = [u \in UploadIds |-> NoUploadItem]
  /\ metadata = [u \in UploadIds |-> NoMetadataItem]
  /\ exif_queue = {}
  /\ exif = [w \in ExifWorkerIds |-> IdleExifWorker]

\* What the upload handlers and the EXIF worker leave alone.
beyond ==
  <<event, api_range, idx, pc, API_KEY_CACHE, articles, runs, unit, call, hist,
    updates, lookups, prev, workers, pure, secret_calls, queue>>

\* complete_upload.py lines 51-63: the status the update_item sets, whatever
\* the item held.
complete_status(status) == "uploaded"

\* create_upload.py lines 49-92: a rejected request is answered at once
\* (lines 51, 59), an accepted one draws its id and puts the item.
CreateUpload ==
  /\ Len(http) < MaxUploadCalls
  /\ \E request \in {"unconfigured", "invalid_json", "accepted"} :
       IF request = "accepted"
         THEN /\ UploadIds \ DrawnUploadIds # {}
              /\ LET id == Fresh(UploadIdOrder, DrawnUploadIds)
                 IN /\ uploads' = [uploads EXCEPT ![id] = UploadItem("created", "create")]
                    /\ http' = Append(http, UploadCall("create", "returned", id, 200))
         ELSE /\ http' = Append(http,
                   UploadCall("create", "returned", "",
                              IF request = "unconfigured" THEN 500 ELSE 400))
              /\ UNCHANGED uploads
  /\ UNCHANGED <<metadata, exif_queue, exif>>
  /\ UNCHANGED beyond

\* complete_upload.py lines 30-48: a request for an upload a client knows; a
\* request without uploadId or with a body that is not JSON is rejected
\* (lines 37, 45).
CompleteStart ==
  /\ Len(http) < MaxUploadCalls
  /\ \/ http' = Append(http, UploadCall("complete", "returned", "", 400))
     \/ \E id \in CreatedUploadIds :
          http' = Append(http, UploadCall("complete", "update_upload", id, 0))
  /\ UNCHANGED <<uploads, metadata, exif_queue, exif>>
  /\ UNCHANGED beyond

\* complete_upload.py lines 50-63.
CompleteUpdate(i) ==
  /\ i \in 1..Len(http)
  /\ http[i].handler = "complete"
  /\ http[i].pc = "update_upload"
  /\ uploads' = [uploads EXCEPT ![http[i].upload_id] =
       UploadItem(complete_status(@.status),
                  IF @.original_image_uri = "none" THEN "complete"
                  ELSE @.original_image_uri)]
  /\ http' = [http EXCEPT ![i].pc = "send"]
  /\ UNCHANGED <<metadata, exif_queue, exif>>
  /\ UNCHANGED beyond

\* complete_upload.py lines 65-70: the message is sent and the request
\* answered.
CompleteSend(i) ==
  /\ i \in 1..Len(http)
  /\ http[i].handler = "complete"
  /\ http[i].pc = "send"
  /\ exif_queue' = exif_queue \cup {ExifMessage(http[i].upload_id)}
  /\ http' = [http EXCEPT ![i].pc = "returned", ![i].status = 200]
  /\ UNCHANGED <<uploads, metadata, exif>>
  /\ UNCHANGED beyond

\* A call of lines 51-68 of complete_upload.py raises.
CompleteRaises(i) ==
  /\ i \in 1..Len(http)
  /\ http[i].handler = "complete"
  /\ http[i].pc \in {"update_upload", "send"}
  /\ http' = [http EXCEPT ![i].pc = "raised", ![i].status = 502]
  /\ UNCHANGED <<uploads, metadata, exif_queue, exif>>
  /\ UNCHANGED beyond

\* exif_worker.py lines 46-100: worker w is handed a message of the queue
\* (a message that was handed out can be handed out again) and asks the
\* object store for the object, which answers or raises.
ExifReceive(w) ==
  /\ exif[w].pc = "idle"
  /\ \E m \in exif_queue, head_ok \in BOOLEAN :
       exif' = [exif EXCEPT ![w] =
                  [pc |-> "put_metadata", upload_id |-> m.upload_id, located |-> head_ok]]
  /\ UNCHANGED <<http, uploads, metadata, exif_queue>>
  /\ UNCHANGED beyond

\* exif_worker.py line 114.
ExifPutMetadata(w) ==
  /\ exif[w].pc = "put_metadata"
  /\ metadata' = [metadata EXCEPT ![exif[w].upload_id] =
                    MetadataItem(TRUE, exif[w].located)]
  /\ exif' = [exif EXCEPT ![w].pc = "update_upload"]
  /\ UNCHANGED <<http, uploads, exif_queue>>
  /\ UNCHANGED beyond

\* exif_worker.py lines 116-124; the handler returns.
ExifUpdateUpload(w) ==
  /\ exif[w].pc = "update_upload"
  /\ uploads' = [uploads EXCEPT ![exif[w].upload_id].status = "metadata_ready"]
  /\ exif' = [exif EXCEPT ![w] = IdleExifWorker]
  /\ UNCHANGED <<http, metadata, exif_queue>>
  /\ UNCHANGED beyond

NextUploads ==
  \/ CreateUpload
  \/ CompleteStart
  \/ \E i \in 1..MaxUploadCalls :
       \/ CompleteUpdate(i)
       \/ CompleteSend(i)
       \/ CompleteRaises(i)
  \/ \E w \in ExifWorkerIds :
       \/ ExifReceive(w)
       \/ ExifPutMetadata(w)
       \/ ExifUpdateUpload(w)

SpecUploads == InitUploads /\ [][NextUploads]_vars



RECURSIVE Replay(_, _, _)
\* Lines 749-803 as a function: the locals a unit ends with when its chain
\* is at `stage` with locals u and its calls give what h records.
Replay(stage, u, h) ==
  IF h[stage].state = "raised" THEN Finalize(OnException(u, h[stage].exc))
  ELSE LET r == coerce_response_to_article_json(h[stage].text, u.title)
           u1 == Absorb(stage, u, r)
           nxt == NextStage(stage, u1)
       IN IF nxt = "done" THEN Finalize(DoneMessage(u1)) ELSE Replay(nxt, u1, h)

\* Lines 728-803 as a function: the locals of a unit processed alone against
\* the registry as generate-article left it, when the secret store gives key,
\* the read of the article item fares as article_read tells and the calls
\* give what h records.
Alone(body, key, article_read, h) ==
  LET derived == IF article_read = "ok" THEN PendingArticle.derived_from_upload_ids
                 ELSE PyNone
      u == AssembleContext(NewUnit(body, key, resolve_upload_ids(body, derived)), "ok")
  IN IF key = <<>> THEN Finalize(OnMissingKey(u)) ELSE Replay("initial", u, h)

(* ---------------------------------------------------------------------- *)
(* Function applications                                                   *)
(* ---------------------------------------------------------------------- *)

\* SpecPure applies one function of the worker to one input: pure.op names
\* the function, pure.input the input, and the step sets pure.output.

\* The request-derived defaults handed to the normalizer (handler lines
\* 728-730).
CreatedAt == Word("T0")

PrivacyLevel == Word("area")

DefaultTitle == PyStr(<<"Auto", " ", "draft", " ", "a1">>)

\* A field the input does not have.
Absent == [t |-> "absent", s |-> <<>>, items |-> <<>>]

OptionalItem(k, value) == IF value = Absent THEN <<>> ELSE <<Item(Key(k), value)>>

TagWords == {PyStr(<<"t1">>), PyStr(<<"red", " ", "sea">>)}

\* The lists of up to MaxTags tags.
CleanTagLists == {<<>>} \cup UNION {[1..k -> TagWords] : k \in 1..MaxTags}

CaptureOf(captured_at, location) ==
  PyDict(OptionalItem("captured_at", captured_at) \o OptionalItem("location", location))

\* A JSON object a model can answer with, fields in the order of the schema.
JsonDoc(title, date, location, tags, body, capture) ==
  PyDict(OptionalItem("title", title) \o OptionalItem("date", date)
           \o OptionalItem("location", location) \o OptionalItem("tags", tags)
           \o OptionalItem("body_markdown", body)
           \o OptionalItem("capture_info", capture))

JsonDocs ==
  {JsonDoc(title, date, location, tags, body, capture) :
     title \in {Absent, PyNum, PyStr(<<" ">>), PyStr(<<" ", "x", NL>>),
                PyStr(<<"json", " ", "x", QUOTE>>)},
     date \in {Absent, Word("d1")},
     location \in {PyStr(<<>>), Word("Kyoto")},
     tags \in {Absent, Word("t1"),
               PyList(<<PyStr(<<" ", "t1">>), PyNum, PyStr(<<" ">>)>>)}
                \cup {PyList(l) : l \in CleanTagLists},
     body \in {Absent, PyStr(<<NL>>), PyStr(<<"b", NL, "c">>)},
     capture \in {Absent, Word("x"), CaptureOf(PyStr(<<" ">>), PyNum),
                  CaptureOf(Word("d1"), Word("Kyoto"))}}

\* The text wrapped in a code fence with the "json" language tag.
Fenced(text) == Fence \o <<"json", NL>> \o text \o <<NL>> \o Fence

\* The text wrapped in a code fence without a language tag.
FencedUntagged(text) == Fence \o <<NL>> \o text \o <<NL>> \o Fence


\* A markdown document: front matter, optional top-level heading, body and
\* capture-info section.  Absent fields have no line; quoted tells whether
\* the title is written between double quotes.
MarkdownDoc(d) ==
  LET line(k, value) == IF value = Absent THEN <<>>
                        ELSE <<k, ":", " ">> \o value.s \o <<NL>>
      title_line == IF d.title = Absent THEN <<>>
                    ELSE IF d.quoted
                      THEN <<"title", ":", " ", QUOTE>> \o d.title.s \o <<QUOTE, NL>>
                    ELSE line("title", d.title)
      bullet(k, value) == IF value = Absent THEN <<>>
                          ELSE <<"-", " ", k, ":", " ">> \o value.s \o <<NL>>
  IN FrontMatterMark \o <<NL>>
       \o title_line \o line("date", d.date) \o line("location", d.location)
       \o line("tags", d.tags_value)
       \o FrontMatterMark \o <<NL, NL>>
       \o (IF d.heading = Absent THEN <<>> ELSE <<"#", " ">> \o d.heading.s \o <<NL, NL>>)
       \o d.body \o <<NL, NL>>
       \o (IF d.section = Absent THEN <<>>
           ELSE <<"#", "#", " ">> \o d.section.s \o <<NL>>
                  \o bullet("captured_at", d.captured_at)
                  \o bullet("location", d.capture_location))

Doc(title, quoted, date, location, tags, tags_value, heading, body, section,
    captured_at, capture_location) ==
  [title |-> title, quoted |-> quoted, date |-> date, location |-> location,
   tags |-> tags, tags_value |-> tags_value, heading |-> heading, body |-> body,
   section |-> section, captured_at |-> captured_at,
   capture_location |-> capture_location]

RECURSIVE comma_list(_, _, _)
\* The tags as a comma-separated list, each between the quote characters
\* `quote` and, when pad is set, with white space around it.
comma_list(tags, quote, pad) ==
  IF tags = <<>> THEN <<>>
  ELSE LET one == (IF pad THEN <<" ">> ELSE <<>>) \o quote \o Head(tags).s \o quote
                    \o (IF pad THEN <<" ">> ELSE <<>>)
       IN IF Len(tags) = 1 THEN one
          ELSE one \o <<",">> \o comma_list(Tail(tags), quote, pad)

\* Documents with every field, in varied writing.
FullDocs ==
  {Doc(title, quoted, PyStr(<<"d", ":", "t">>), Word("Kyoto"), PyList(tags),
       IF as_json THEN PyStr(json_dumps(PyList(tags)))
       ELSE PyStr(comma_list(tags, <<>>, TRUE)),
       heading, body, section, captured_at, Word("Nara")) :
     title \in {Word("x"), PyStr(<<"x", " ", "y">>), PyStr(<<"x", QUOTE>>)},
     quoted \in BOOLEAN,
     tags \in CleanTagLists,
     as_json \in BOOLEAN,
     heading \in {Absent, Word("h")},
     body \in {<<"b">>, <<"b", NL, NL, "c">>},
     section \in {PyStr(<<"Capture", " ", "info">>), PyStr(<<"capture", " ", "Info">>)},
     captured_at \in {Word("d1"), PyStr(<<"d", ":", "t">>)}}

\* Documents that lack fields.
PartialDocs ==
  {Doc(title, FALSE, date, location, PyList(<<>>), tags_value, heading, <<"b">>,
       section, captured_at, captured_at) :
     title \in {Absent, PyStr(<<" ">>), Word("x")},
     date \in {Absent, Word("d1")},
     location \in {Absent, PyStr(<<>>)},
     tags_value \in {Absent, PyStr(<<",", " ">>)},
     heading \in {Absent, Word("h")},
     section \in {Absent, PyStr(<<"Capture", " ", "info">>)},
     captured_at \in {Absent, PyStr(<<>>)}}

\* A canonical Article.
ArticleOf(title, date, location, tags, body, captured_at, capture_location) ==
  PyDict(<<Item(Key("title"), title), Item(Key("date"), date),
           Item(Key("location"), location), Item(Key("tags"), tags),
           Item(Key("body_markdown"), body),
           Item(Key("capture_info"), CaptureOf(captured_at, capture_location))>>)

Articles ==
  {ArticleOf(title, date, Word("Kyoto"), PyList(tags), body, captured_at, Word("Nara")) :
     title \in {Word("x"), PyStr(<<"x", " ", "y">>), PyStr(<<"x", ":", "y">>),
                PyStr(<<"x", QUOTE>>), PyStr(<<QUOTE, "x", QUOTE, " ", "y">>)},
     date \in {Word("d1"), PyStr(<<"d", ":", "t">>)},
     tags \in CleanTagLists,
     body \in {PyStr(<<"b">>), PyStr(<<"b", NL, NL, "c">>),
               PyStr(<<"#", " ", "h", NL, "b">>)},
     captured_at \in {Word("d1"), Word("unknown")}}

\* Front-matter tags values: the tags, how each is quoted and padded.
TagsInputs ==
  {[tags |-> tags, quote |-> quote, pad |-> pad] :
     tags \in CleanTagLists, quote \in {<<>>, <<QUOTE>>, <<APOSTROPHE>>},
     pad \in BOOLEAN}

\* A document whose front matter has the one line "tags: value".
TagsDoc(value) ==
  FrontMatterMark \o <<NL, "tags", ":", " ">> \o value \o <<NL>>
    \o FrontMatterMark \o <<NL, "b", NL>>

\* JSON secrets: for each of the three key names, whether it is absent, a
\* number, a blank string or a padded string.
SecretFields == {"absent", "number", "blank", "string"}

SecretItem(name, kind, text) ==
  IF kind = "absent" THEN <<>>
  ELSE IF kind = "number" THEN <<Item(Key(name), PyNum)>>
  ELSE IF kind = "blank" THEN <<Item(Key(name), PyStr(<<" ">>))>>
  ELSE <<Item(Key(name), PyStr(<<" ", text, " ">>))>>

SecretObject(f) ==
  PyDict(<<Item(Key("project"), Word("blog"))>>
           \o SecretItem("apiKey", f[1], "K1") \o SecretItem("key", f[2], "K2")
           \o SecretItem("GEMINI_API_KEY", f[3], "K3"))

SecretStrings ==
  {PyStr(json_dumps(SecretObject(f))) : f \in [1..3 -> SecretFields]}
    \cup {PyNone, PyStr(<<>>), PyStr(<<" ", NL>>), PyStr(<<"K0">>),
          PyStr(<<" ", "K0", NL>>), PyStr(json_dumps(PyList(<<Word("K1")>>))),
          PyStr(json_dumps(Word("K1"))), PyStr(<<"{", QUOTE, "apiKey", QUOTE>>)}

\* What the secret store can answer to get_secret_value.
SecretAnswers ==
  {SecretAnswer(FALSE, FALSE, PyNone, NoBinary),
   SecretAnswer(TRUE, FALSE, PyNone, NoBinary)}
    \cup {SecretAnswer(TRUE, TRUE, s, NoBinary) : s \in SecretStrings}
    \cup {SecretAnswer(TRUE, TRUE, s, b) :
            s \in {PyNone, PyStr(<<>>), PyStr(<<"K0">>)},
            b \in {Binary(FALSE, <<>>), Binary(TRUE, <<" ", "K9">>),
                   Binary(TRUE, json_dumps(SecretObject(<<"absent", "string", "absent">>)))}}

\* Lists of upload ids as a client can send them: entries that are blank,
\* no strings, padded or repeated.
UploadIdLists ==
  {<<>>, <<PyStr(<<" ">>), PyNum>>, <<Word("u1")>>,
   <<PyStr(<<" ", "u1">>), PyNum, Word("u2"), PyStr(<<>>), Word("u1")>>}

\* The "upload_ids" of a work unit: absent (the message of
\* regenerate-article), no list, or a list.
PayloadUploadIds == {PyNone, Word("u1"), PyNum} \cup {PyList(l) : l \in UploadIdLists}

\* The article item as generate-article puts it (generate_article.py lines
\* 54-66) and the updates of lines 805-819 and of regenerate-article leave
\* it: they do not set derived_from_upload_ids.
ArticleItem(derived) ==
  PyDict(<<Item(Key("article_id"), Word("a1")), Item(Key("status"), Word("draft_pending"))>>
           \o OptionalItem("derived_from_upload_ids", derived))

\* What the article registry can answer to _resolve_upload_ids.
ArticleAnswers ==
  {GetItemAnswer(TRUE, PyNone), GetItemAnswer(FALSE, PyNone),
   GetItemAnswer(FALSE, EmptyItem)}
    \cup {GetItemAnswer(FALSE, ArticleItem(d)) :
            d \in {Absent, Word("u1")} \cup {PyList(l) : l \in UploadIdLists}}

ResolveInputs ==
  {[upload_ids |-> u, answer |-> a] : u \in PayloadUploadIds, a \in ArticleAnswers}

\* The upload ids of a unit: up to MaxUploadIds of them.
UploadIdsOfLen(n) == [i \in 1..n |-> IF i % 2 = 1 THEN <<"u1">> ELSE <<"u2">>]

ContextInput(upload_ids, scenarios) ==
  [upload_ids |-> upload_ids, scenarios |-> scenarios,
   reads |-> [i \in 1..Len(upload_ids) |-> ContextReadOf(upload_ids[i], scenarios[i])],
   loads |-> [i \in 1..Len(upload_ids) |-> ImageReadOf(upload_ids[i], scenarios[i])]]

ContextInputs ==
  UNION {{ContextInput(UploadIdsOfLen(n), s) : s \in [1..n -> PhotoScenarios]} :
           n \in 0..MaxUploadIds}

\* The places a photo's object location can be recorded in.
LocationInputs ==
  {[upload_item |-> PyDict(OptionalItem("original_image_uri", upload_uri)),
    metadata_item |-> PyDict(OptionalItem("object_bucket", bucket)
                               \o OptionalItem("object_key", key)
                               \o OptionalItem("s3_uri", metadata_uri))] :
     bucket \in {Absent, PyStr(<<" ">>), Word("mb")},
     key \in {Absent, PyNum, PyStr(<<"mk", ".png">>)},
     metadata_uri \in {Absent, PyStr(<<" ">>),
                       PyStr(<<" ">> \o S3Uri("s3", <<"sb">>, <<"sk", ".png">>)),
                       PyStr(S3Uri("http", <<"sb">>, <<"sk">>)),
                       PyStr(<<"s3", ":", "/", "/", "sb">>),
                       PyStr(S3Uri("s3", <<"sb">>, <<>>)),
                       PyStr(<<"sb", "/", "sk">>),
                       PyStr(S3Uri("s3", <<"[", "sb">>, <<"sk">>))},
     upload_uri \in {Absent, PyStr(S3Uri("s3", <<"ub">>, <<"uk", ".jpg">>)),
                     PyStr(S3Uri("http", <<"ub">>, <<"uk">>))}}

Application(op, input) == [op |-> op, input |-> input, done |-> FALSE, output |-> <<>>]

\* The requests of a call under a setting of GEMINI_MAX_RETRIES: timeouts
\* as long as the setting allows, then nothing more (the retries are used
\* up), a response or an error.
LoopInput(max_retries, timeouts, last) ==
  [max_retries |-> max_retries, timeouts |-> timeouts, last |-> last,
   kinds |-> [n \in 1..timeouts |-> "timeout"]
               \o (IF last = "timeout" THEN <<>> ELSE <<last>>)]

LoopInputs ==
  {LoopInput(m, m + 1, "timeout") : m \in 0..MaxRetriesTried}
    \cup {LoopInput(m, k, last) :
            m \in 0..MaxRetriesTried, k \in 0..MaxRetriesTried,
            last \in {"response", "error"}}

InitPure ==
  /\ event = <<>>
  /\ api_range = "none"
  /\ idx = 0
  /\ pc = "pure"
  /\ API_KEY_CACHE = NoneValue
  /\ articles = [a \in ArticleIds |-> PendingArticle]
  /\ runs = [r \in RunIds |-> QueuedRun]
  /\ unit = NoUnit
  /\ call = NoCall
  /\ hist = NoHistory
  /\ updates = <<>>
  /\ lookups = <<>>
  /\ prev = NoPrev
  /\ workers = NoWorkers
  /\ secret_calls = 0
  /\ SiteIdle
  /\ pure \in {Application("coerce_json", d) : d \in JsonDocs}
                \cup {Application("coerce_markdown", d) : d \in FullDocs \cup PartialDocs}
                \cup {Application("round_trip", a) : a \in Articles}
                \cup {Application("tags", t) : t \in TagsInputs}
                \cup {Application("get_api_key", s) : s \in SecretAnswers}
                \cup {Application("resolve_upload_ids", i) : i \in ResolveInputs}
                \cup {Application("assemble_context", i) : i \in ContextInputs}
                \cup {Application("resolve_s3_location", i) : i \in LocationInputs}
                \cup {Application("request_loop", i) : i \in LoopInputs}



\* The variables only Spec and SpecWorkers change.
others ==
  <<event, api_range, idx, pc, API_KEY_CACHE, articles, runs, unit, call, hist,
    updates, lookups, prev, workers, secret_calls, site>>

Coerce(text) == coerce(text, CreatedAt, PrivacyLevel, DefaultTitle)

Applies(op) == pure.op = op /\ ~pure.done

Gives(output) == pure' = [pure EXCEPT !.done = TRUE, !.output = output]

\* _coerce_response_to_article_json on the JSON text of an object: bare, in
\* a code fence with the "json" tag and in a code fence without a tag.
ApplyCoerceToJson ==
  /\ Applies("coerce_json")
  /\ Gives([plain |-> Coerce(json_dumps(pure.input)),
            fenced |-> Coerce(Fenced(json_dumps(pure.input))),
            untagged |-> Coerce(FencedUntagged(json_dumps(pure.input)))])
  /\ UNCHANGED others

\* _coerce_response_to_article_json on a markdown document.
ApplyCoerceToMarkdown ==
  /\ Applies("coerce_markdown")
  /\ Gives(Coerce(MarkdownDoc(pure.input)))
  /\ UNCHANGED others

\* _build_markdown_from_json on an Article, then _parse_markdown_article on
\* the markdown.
ApplyRoundTrip ==
  /\ Applies("round_trip")
  /\ Gives(LET markdown == markdown_from_json(pure.input)
           IN [markdown |-> markdown,
               parsed |-> parse_markdown_article(markdown, CreatedAt, PrivacyLevel,
                                                 DefaultTitle)])
  /\ UNCHANGED others

\* _coerce_response_to_article_json on documents whose front matter gives
\* the tags as a JSON array, as a comma-separated list and as the
\* comma-separated list between brackets.
ApplyTags ==
  /\ Applies("tags")
  /\ Gives(LET t == pure.input
               list == comma_list(t.tags, t.quote, t.pad)
           IN [json_array |-> Coerce(TagsDoc(json_dumps(PyList(t.tags)))),
               comma_list |-> Coerce(TagsDoc(list)),
               bracketed |-> Coerce(TagsDoc(<<"[">> \o list \o <<"]">>))])
  /\ UNCHANGED others

\* _get_api_key in a process whose cache is empty.
ApplyGetApiKey ==
  /\ Applies("get_api_key")
  /\ Gives(get_api_key(pure.input))
  /\ UNCHANGED others

\* _resolve_upload_ids on the upload_ids of a payload and the answer of the
\* article registry.
ApplyResolveUploadIds ==
  /\ Applies("resolve_upload_ids")
  /\ Gives(resolve_upload_ids(pure.input, derived_upload_ids(pure.input.answer)))
  /\ UNCHANGED others

\* _format_photo_context and _load_image_parts on the upload ids of a unit
\* (handler lines 738-739).
ApplyAssembleContext ==
  /\ Applies("assemble_context")
  /\ Gives([photo_context |-> format_photo_context(pure.input.upload_ids,
                                                   pure.input.reads),
            image_parts |-> load_image_parts(pure.input.upload_ids, pure.input.loads)])
  /\ UNCHANGED others

\* _resolve_s3_location on the two records of a photo, and the
\* _load_image_parts of that photo when its bytes can be fetched.
ApplyResolveS3Location ==
  /\ Applies("resolve_s3_location")
  /\ Gives([location |-> resolve_s3_location(pure.input.upload_item,
                                             pure.input.metadata_item),
            loaded |-> load_image_parts(
                         << <<"u1">> >>,
                         <<[upload |-> ItemGiven(pure.input.upload_item),
                            metadata |-> ItemGiven(pure.input.metadata_item),
                            fetch |-> S3Answer("data", BytesOf(<<"u1">>), PyNone)]>>)])
  /\ UNCHANGED others

\* The request loop of _call_gemini under a setting of GEMINI_MAX_RETRIES.
ApplyRequestLoop ==
  /\ Applies("request_loop")
  /\ Gives(request_loop_sleeps(pure.input.max_retries, pure.input.kinds, 0))
  /\ UNCHANGED others

NextPure ==
  \/ ApplyRequestLoop
  \/ ApplyAssembleContext
  \/ ApplyResolveS3Location
  \/ ApplyCoerceToJson
  \/ ApplyCoerceToMarkdown
  \/ ApplyRoundTrip
  \/ ApplyTags
  \/ ApplyGetApiKey
  \/ ApplyResolveUploadIds

SpecPure == InitPure /\ [][NextPure]_vars

(* ---------------------------------------------------------------------- *)
(* Vocabulary of the properties                                            *)
(* ---------------------------------------------------------------------- *)

\* A record body that is a JSON object with string article_id and run_id.
IsUnit(b) == b.form = "object" /\ HasIds(b)

\* The unit of record idx has had both its updates (unit, call and hist
\* still hold what it did).
UnitWritten ==
  /\ pc \in {"loop", "returned", "raised"}
  /\ idx > 0
  /\ IsUnit(event[idx])

StoredArticle == articles[unit.article_id]

StoredRun == runs[unit.run_id]

StoredLen ==
  IF StoredArticle.body_json = FallbackBodyJson THEN 0
  ELSE StoredArticle.body_json.body_len

StageCalled(s) == hist[s].state \in {"returned", "raised"}

SomeStageRaised == \E s \in Stages : hist[s].state = "raised"

\* The Article and warning that are current once the retry stage is over.
AfterRetryArticle ==
  IF hist["retry"].article.present THEN hist["retry"].article
  ELSE hist["initial"].article

AfterRetryWarning ==
  IF hist["retry"].article.present THEN hist["retry"].warning
  ELSE hist["initial"].warning

InitialBelowFloor ==
  /\ unit.api_key # <<>>
  /\ hist["initial"].state = "returned"
  /\ article_body_length(hist["initial"].article) < unit.min_chars

Max3(a, b, c) == Max(a, Max(b, c))

(* ---------------------------------------------------------------------- *)
(* C1                                                                      *)
(* ---------------------------------------------------------------------- *)

\* C1: every record of the event whose body is a JSON object with string
\* article_id and run_id gets exactly one update of its article record
\* (status draft) and exactly one update of its run record (status
\* completed), whatever the model calls do, and no model request of the
\* unit follows an update.
C1_OneOutcomePerDeliveredUnit ==
  /\ \A i \in 1..Len(event) : updates[i].article <= 1 /\ updates[i].run <= 1
  /\ pc \in {"urlopen", "after_call"} => updates[idx + 1] = [article |-> 0, run |-> 0]
  /\ pc \in {"returned", "raised"} =>
       \A i \in 1..Len(event) :
         IsUnit(event[i]) =>
           /\ updates[i] = [article |-> 1, run |-> 1]
           /\ articles[event[i].article_id.v].status = "draft"
           /\ runs[event[i].run_id.v].status = "completed"

\* What does hold: every unit the loop has reached and left behind has had
\* exactly one update of each registry.
ReachedUnitsHaveOneOutcome ==
  /\ \A i \in 1..Len(event) : updates[i].article <= 1 /\ updates[i].run <= 1
  /\ \A i \in 1..idx : IsUnit(event[i]) => updates[i] = [article |-> 1, run |-> 1]

(* ---------------------------------------------------------------------- *)
(* C2                                                                      *)
(* ---------------------------------------------------------------------- *)

\* C2 as stated: a unit with a credential whose initial body is below the
\* floor attempts the retry and then the expansion, and the stored body
\* length is the maximum of the body lengths parsed from the three attempts.
C2_StoredIsMaxOfThree ==
  (UnitWritten /\ InitialBelowFloor) =>
    /\ StageCalled("retry")
    /\ StageCalled("expand")
    /\ StoredLen = Max3(article_body_length(hist["initial"].article),
                        article_body_length(hist["retry"].article),
                        article_body_length(hist["expand"].article))

\* C2 amended: such a unit attempts the retry; it attempts the expansion
\* exactly when the retry call returned and the Article then current (the
\* retry's if it parsed, else the initial one) exists and is below the
\* floor; the stored body length is the maximum of the lengths of that
\* Article and of the Article parsed from the expansion.
C2_StoredIsMaxAfterRetry ==
  (UnitWritten /\ InitialBelowFloor) =>
    /\ StageCalled("retry")
    /\ StageCalled("expand") <=>
         /\ hist["retry"].state = "returned"
         /\ AfterRetryArticle.present
         /\ article_body_length(AfterRetryArticle) < unit.min_chars
    /\ StoredLen = Max(article_body_length(AfterRetryArticle),
                       article_body_length(hist["expand"].article))

\* A unit whose retry gave a shorter Article than the initial attempt, and
\* whose expansion did not make up for it.
C2_Witness ==
  /\ UnitWritten
  /\ InitialBelowFloor
  /\ hist["retry"].article.present
  /\ hist["expand"].state = "returned"
  /\ StoredLen < article_body_length(hist["initial"].article)

(* ---------------------------------------------------------------------- *)
(* C3                                                                      *)
(* ---------------------------------------------------------------------- *)

\* C3: once the expansion call has returned, the current Article and
\* warning are those of the expansion if it parsed and its body is at least
\* as long as the body that was current, and are unchanged otherwise; the
\* current (and the stored) body is never shorter than it was before the
\* expansion.
C3_ExpandNeverShortens ==
  hist["expand"].state = "returned" =>
    /\ IF /\ hist["expand"].article.present
          /\ article_body_length(hist["expand"].article)
               >= article_body_length(AfterRetryArticle)
         THEN /\ unit.article_json = hist["expand"].article
              /\ unit.warning = hist["expand"].warning
         ELSE /\ unit.article_json = AfterRetryArticle
              /\ unit.warning = AfterRetryWarning
    /\ article_body_length(unit.article_json) >= article_body_length(AfterRetryArticle)
    /\ UnitWritten =>
         /\ StoredArticle.body_json = unit.article_json
         /\ StoredLen >= article_body_length(AfterRetryArticle)

\* An expansion that parsed, was shorter than the current body, and was
\* dropped.
C3_Witness ==
  /\ UnitWritten
  /\ hist["expand"].state = "returned"
  /\ hist["expand"].article.present
  /\ article_body_length(hist["expand"].article) < article_body_length(AfterRetryArticle)
  /\ StoredArticle.body_json = AfterRetryArticle

(* ---------------------------------------------------------------------- *)
(* C4                                                                      *)
(* ---------------------------------------------------------------------- *)

\* C4: once the retry call has returned (and before any expansion result),
\* the current Article and warning are those of the retry if it parsed,
\* whatever its length, and those of the initial attempt otherwise.
C4_RetrySupersedes ==
  (hist["retry"].state = "returned" /\ hist["expand"].state = "not_run") =>
    IF hist["retry"].article.present
      THEN /\ unit.article_json = hist["retry"].article
           /\ unit.warning = hist["retry"].warning
           /\ unit.article_from = "retry"
      ELSE /\ unit.article_json = hist["initial"].article
           /\ unit.warning = hist["initial"].warning
           /\ unit.article_from \in {"initial", "none"}

\* A retry that parsed, is below the floor and shorter than the initial
\* body, and is the current Article.
C4_Witness ==
  /\ hist["retry"].state = "returned"
  /\ hist["expand"].state = "not_run"
  /\ hist["retry"].article.present
  /\ article_body_length(hist["retry"].article)
       < article_body_length(hist["initial"].article)
  /\ unit.article_json = hist["retry"].article
  /\ unit.warning # hist["initial"].warning

(* ---------------------------------------------------------------------- *)
(* C5                                                                      *)
(* ---------------------------------------------------------------------- *)

\* C5: a unit without a credential makes no model call, and its outcome has
\* the message "Gemini API key is missing.", body_json {"status":
\* "fallback"}, the placeholder markdown and run status completed.
C5_MissingKeyOutcome ==
  /\ (pc \in {"urlopen", "after_call"}) => unit.api_key # <<>>
  /\ (UnitWritten /\ unit.api_key = <<>>) =>
       /\ call = NoCall
       /\ \A s \in Stages : hist[s].state = "not_run"
       /\ StoredRun = [status |-> "completed", model |-> GEMINI_MODEL,
                       error_message |-> MissingKeyMessage]
       /\ StoredArticle.status = "draft"
       /\ StoredArticle.body_json = FallbackBodyJson
       /\ StoredArticle.body_markdown = build_markdown(FallbackTitle(unit.article_id))
       /\ StoredArticle.title = FallbackTitle(unit.article_id)

\* The outcome of a unit without a credential has been written.
C5_Witness ==
  /\ UnitWritten
  /\ unit.api_key = <<>>
  /\ StoredRun.error_message = MissingKeyMessage
  /\ StoredArticle.body_json = FallbackBodyJson
(* ---------------------------------------------------------------------- *)
(* C6                                                                      *)
(* ---------------------------------------------------------------------- *)

\* The stages that come after stage s.
LaterStages(s) ==
  IF s = "initial" THEN {"retry", "expand"}
  ELSE IF s = "retry" THEN {"expand"}
  ELSE {}

\* The Article that is current when the call of stage s is under way.
CurrentBefore(s) ==
  IF s = "initial" THEN NoArticle
  ELSE IF s = "retry" THEN hist["initial"].article
  ELSE AfterRetryArticle

\* C6: once a stage of a unit has raised, no further model call is made for
\* the unit, the Article that was current then is the one kept and stored
\* (the placeholder if there is none), the message of the outcome is the
\* text of the exception, and the outcome is written with run status
\* completed; the only exception that leaves handler is that of a body that
\* is no JSON object.
C6_ExceptionEndsChain ==
  /\ \A s \in Stages :
       hist[s].state = "raised" =>
         /\ pc \notin {"urlopen", "after_call"}
         /\ call.stage = s /\ call.status = "raised" /\ call.exc # ""
         /\ \A t \in LaterStages(s) : hist[t].state = "not_run"
         /\ unit.article_json = CurrentBefore(s)
         /\ unit.error_message = call.exc
         /\ UnitWritten =>
              /\ StoredRun.status = "completed"
              /\ StoredRun.error_message = call.exc
              /\ StoredArticle.body_json =
                   IF CurrentBefore(s).present THEN CurrentBefore(s)
                   ELSE FallbackBodyJson
              /\ ~CurrentBefore(s).present =>
                   StoredArticle.body_markdown = build_markdown(FallbackTitle(unit.article_id))
  /\ pc = "raised" => event[idx + 1].form = "non_object"

\* A retry call that raised after an initial attempt that gave an Article:
\* that Article is stored with the text of the exception.
C6_Witness ==
  /\ UnitWritten
  /\ hist["retry"].state = "raised"
  /\ hist["initial"].article.present
  /\ StoredArticle.body_json = hist["initial"].article
  /\ StoredRun.error_message = call.exc
  /\ call.timeouts = GEMINI_MAX_RETRIES + 1

(* ---------------------------------------------------------------------- *)
(* C7                                                                      *)
(* ---------------------------------------------------------------------- *)

\* C7: a model call sends at most GEMINI_MAX_RETRIES+1 requests; while it is
\* still running every request it has sent timed out; a non-2xx response or
\* another transport error ends it at once with an error; and it ends with
\* an error when all GEMINI_MAX_RETRIES+1 requests timed out.
C7_BoundedRetryOnTimeoutOnly ==
  /\ call.requests <= GEMINI_MAX_RETRIES + 1
  /\ call.status = "running" =>
       /\ call.requests = call.timeouts
       /\ call.attempt = call.timeouts
       /\ call.requests <= GEMINI_MAX_RETRIES
  /\ call.last_kind \in {"http_error", "url_error", "other_error"} =>
       /\ call.status = "raised"
       /\ call.requests = call.timeouts + 1
       /\ pc # "urlopen"
  /\ call.timeouts = GEMINI_MAX_RETRIES + 1 =>
       /\ call.status = "raised"
       /\ call.exc \in {RequestFailed("timed out"),
                        RequestFailed("<urlopen error timed out>")}
  /\ call.timeouts <= GEMINI_MAX_RETRIES + 1

\* A call all of whose GEMINI_MAX_RETRIES+1 requests timed out.
C7_Witness ==
  /\ call.status = "raised"
  /\ call.requests = GEMINI_MAX_RETRIES + 1
  /\ call.timeouts = GEMINI_MAX_RETRIES + 1

(* ---------------------------------------------------------------------- *)
(* C8                                                                      *)
(* ---------------------------------------------------------------------- *)

\* C8: a call whose first k requests time out (0 <= k <= GEMINI_MAX_RETRIES)
\* and whose next request gets a decodable response returns the text of that
\* response and does not raise; after a response the error of an earlier
\* timeout is never the one reported.
C8_SuccessAfterTimeouts ==
  call.last_kind = "response" =>
    /\ call.timeouts \in 0..GEMINI_MAX_RETRIES
    /\ call.requests = call.timeouts + 1
    /\ call.payload.decodes =>
         /\ call.status = "returned"
         /\ call.text = extract_text(call.payload)
         /\ call.exc = ""
    /\ call.status = "raised" =>
         call.exc \notin {RequestFailed("timed out"),
                          RequestFailed("<urlopen error timed out>")}

\* Two timeouts, then a response whose text is returned.
C8_Witness ==
  /\ call.status = "returned"
  /\ call.timeouts = GEMINI_MAX_RETRIES
  /\ call.payload.candidates # <<>>
  /\ call.text = call.payload.candidates[1]
  /\ call.text # EmptyText

(* ---------------------------------------------------------------------- *)
(* C9                                                                      *)
(* ---------------------------------------------------------------------- *)

ZeroCandidates == Payload(TRUE, <<>>)

\* C9: a response with zero candidates makes the call return the empty text
\* without raising, that text normalizes to no Article, and a unit none of
\* whose attempts gave an Article ends with the placeholder article,
\* body_json {"status": "fallback"} and a completed run, and no unit makes
\* handler raise.
C9_ZeroCandidatesFallBack ==
  /\ (call.last_kind = "response" /\ call.payload = ZeroCandidates) =>
       /\ call.status = "returned"
       /\ call.text = EmptyText
       /\ call.exc = ""
       /\ ~coerce_response_to_article_json(call.text, unit.title).article.present
  /\ (UnitWritten /\ unit.api_key # <<>>
        /\ \A s \in Stages : ~hist[s].article.present) =>
       /\ StoredArticle.status = "draft"
       /\ StoredArticle.body_json = FallbackBodyJson
       /\ StoredArticle.body_markdown = build_markdown(FallbackTitle(unit.article_id))
       /\ StoredRun.status = "completed"
       /\ StoredRun.error_message # ""
       /\ ~SomeStageRaised => StoredRun.error_message = NotJsonFallbackWarning
  /\ pc = "raised" => ~IsUnit(event[idx + 1])

\* A unit whose initial and retry responses both had zero candidates.
C9_Witness ==
  /\ UnitWritten
  /\ hist["initial"].state = "returned"
  /\ hist["retry"].state = "returned"
  /\ call.stage = "retry"
  /\ call.payload = ZeroCandidates
  /\ StoredArticle.body_json = FallbackBodyJson
  /\ StoredRun.status = "completed"

(* ---------------------------------------------------------------------- *)
(* C10                                                                     *)
(* ---------------------------------------------------------------------- *)

\* The message f"{warning} {suffix}".strip().
WithSuffix(warning) ==
  IF warning = "" THEN ShortSuffix ELSE warning \o " " \o ShortSuffix

\* C10: for a unit with a credential none of whose stages raised, the
\* message of the outcome is empty if the final Article meets the floor,
\* and, if the final Article is below the floor, it is the warning of the
\* attempt that Article came from followed by "Output shorter than
\* requested.".
C10_FinalMessage ==
  (UnitWritten /\ unit.api_key # <<>> /\ ~SomeStageRaised
     /\ unit.article_json.present) =>
    /\ unit.article_from \in Stages
    /\ hist[unit.article_from].article = unit.article_json
    /\ StoredArticle.body_json = unit.article_json
    /\ IF article_body_length(unit.article_json) >= unit.min_chars
         THEN StoredRun.error_message = ""
         ELSE StoredRun.error_message = WithSuffix(hist[unit.article_from].warning)

\* A final Article that meets the floor and was parsed as markdown: the
\* warning of its attempt is not in the outcome.
C10_Witness ==
  /\ UnitWritten
  /\ unit.api_key # <<>>
  /\ ~SomeStageRaised
  /\ unit.article_json.present
  /\ article_body_length(unit.article_json) >= unit.min_chars
  /\ hist[unit.article_from].warning = ParsedAsMarkdownWarning
  /\ StoredRun.error_message = ""

(* ---------------------------------------------------------------------- *)
(* C11                                                                     *)
(* ---------------------------------------------------------------------- *)

\* A record whose body is not valid JSON, or is an object whose article_id
\* or run_id is missing or not a string.
Skippable(b) ==
  \/ b.form = "not_json"
  \/ b.form = "object" /\ (b.article_id.t # "str" \/ b.run_id.t # "str")

InitialArticles == [a \in ArticleIds |-> PendingArticle]

InitialRuns == [r \in RunIds |-> QueuedRun]

C12_NoRecordBlocksOthers ==
  /\ pc # "raised"
  /\ pc = "returned" =>
       \A i \in 1..Len(event) :
         IsUnit(event[i]) => updates[i].article = 1 /\ updates[i].run = 1

(* ---------------------------------------------------------------------- *)
(* C13                                                                     *)
(* ---------------------------------------------------------------------- *)

\* The unit just written is the unit written before it, delivered again.
Redelivered == UnitWritten /\ prev.set /\ prev.body = event[idx]

\* The calls of the unit just written were made at the same stages and gave
\* the same texts and exceptions as those of the unit before it.
SameResponses ==
  \A s \in Stages :
    /\ hist[s].state = prev.hist[s].state
    /\ hist[s].text = prev.hist[s].text
    /\ hist[s].exc = prev.hist[s].exc

AloneUnit(w) ==
  Alone(event[w], workers[w].API_KEY_CACHE.v, workers[w].lookup.article_read,
        workers[w].hist)

\* C14: when two units with distinct article_id and run_id are processed by
\* concurrent workers, in every interleaving of their steps the article and
\* run records of each unit are untouched until its own worker updates them
\* and are then exactly the records the unit gets when processed alone with
\* the same credential and model responses; the locals its worker ends with
\* are those of the run alone.
C14_ConcurrentUnitsIndependent ==
  \A w \in WorkerIds :
    LET me == workers[w]
        a == event[w].article_id.v
        r == event[w].run_id.v
    IN /\ me.updates.article = 0 => articles[a] = PendingArticle
       /\ me.updates.run = 0 => runs[r] = QueuedRun
       /\ me.pc \in {"update_article", "update_run", "returned"} =>
            me.unit = AloneUnit(w)
       /\ me.updates.article = 1 =>
            articles[a] = article_update(PendingArticle, AloneUnit(w))
       /\ me.updates.run = 1 => runs[r] = run_update(QueuedRun, AloneUnit(w))

\* Both workers stand between their article update and their run update,
\* each with an Article of its own model call.
C14_Witness ==
  /\ pc = "workers"
  /\ \A w \in WorkerIds :
       /\ workers[w].pc = "update_run"
       /\ workers[w].unit.article_json.present
       /\ articles[event[w].article_id.v].status = "draft"
  /\ event[1].article_id # event[2].article_id
  /\ event[1].run_id # event[2].run_id

(* ---------------------------------------------------------------------- *)
(* Normalized articles                                                     *)
(* ---------------------------------------------------------------------- *)

Blank(s) == \A i \in 1..Len(s) : s[i] \in Whitespace

\* The value is missing, not a string, or a blank string.
Unusable(value) == value.t # "str" \/ Blank(value.s)

Field(d, name) == dict_get(d, Key(name))

CaptureField(d, name) ==
  IF Field(d, "capture_info").t = "dict"
    THEN dict_get(Field(d, "capture_info"), Key(name)) ELSE PyNone

KeysOf(d) == [i \in 1..Len(d.items) |-> d.items[i].k]

\* The results of coerce this state holds.
Returned ==
  IF ~pure.done THEN {}
  ELSE IF pure.op = "coerce_json" THEN {pure.output.plain, pure.output.fenced}
  ELSE IF pure.op = "coerce_markdown" THEN {pure.output}
  ELSE IF pure.op = "tags"
    THEN {pure.output.json_array, pure.output.comma_list, pure.output.bracketed}
  ELSE {}

\* All seven leaf fields are there, and the tags are non-blank strings.
Complete(article) ==
  /\ article.t = "dict"
  /\ KeysOf(article) = <<Key("title"), Key("date"), Key("location"), Key("tags"),
                         Key("body_markdown"), Key("capture_info")>>
  /\ \A name \in {"title", "date", "location"} : ~Unusable(Field(article, name))
  /\ Field(article, "body_markdown").t = "str"
  /\ Field(article, "tags").t = "list"
  /\ \A i \in 1..Len(Field(article, "tags").items) :
       ~Unusable(Field(article, "tags").items[i])
  /\ Field(article, "capture_info").t = "dict"
  /\ KeysOf(Field(article, "capture_info")) = <<Key("captured_at"), Key("location")>>
  /\ ~Unusable(CaptureField(article, "captured_at"))
  /\ ~Unusable(CaptureField(article, "location"))

\* The article has the default of every field the JSON object d lacks.
DefaultsOfJson(d, article) ==
  /\ Unusable(Field(d, "title")) => Field(article, "title") = DefaultTitle
  /\ Unusable(Field(d, "date")) => Field(article, "date") = CreatedAt
  /\ Unusable(Field(d, "location")) => Field(article, "location") = PrivacyLevel
  /\ Unusable(CaptureField(d, "captured_at"))
       => CaptureField(article, "captured_at") = Word("unknown")
  /\ Unusable(CaptureField(d, "location"))
       => CaptureField(article, "location") = Word("unspecified")
  /\ Field(d, "tags").t # "list" => Field(article, "tags") = PyList(<<>>)
  /\ Field(d, "tags").t = "list"
       => Len(Field(article, "tags").items)
            = Cardinality({i \in 1..Len(Field(d, "tags").items) :
                             ~Unusable(Field(d, "tags").items[i])})

\* The article has the default of every field the markdown document d lacks.
DefaultsOfMarkdown(d, article) ==
  /\ Unusable(d.title) /\ d.heading = Absent => Field(article, "title") = DefaultTitle
  /\ Unusable(d.date) => Field(article, "date") = CreatedAt
  /\ Unusable(d.location) => Field(article, "location") = PrivacyLevel
  /\ d.section = Absent \/ Unusable(d.captured_at)
       => CaptureField(article, "captured_at") = Word("unknown")
  /\ d.section = Absent \/ Unusable(d.capture_location)
       => CaptureField(article, "location") = Word("unspecified")
  /\ d.tags_value = Absent => Field(article, "tags") = PyList(<<>>)

\* C15: every Article coerce returns has title, date, location, tags,
\* body_markdown, capture_info.captured_at and capture_info.location; a
\* title, date, location, captured_at or capture location that the source
\* gives as missing, blank or not a string is fallback_title, created_at,
\* privacy_level, "unknown" or "unspecified"; the tags are non-blank
\* strings, the other entries are dropped and a non-list gives no tags.
C15_NormalizedArticleComplete ==
  /\ \A r \in Returned : r.article # PyNone => Complete(r.article)
  /\ pure.done /\ pure.op = "coerce_json" /\ pure.output.plain.warning = ""
       => DefaultsOfJson(pure.input, pure.output.plain.article)
  /\ pure.done /\ pure.op = "coerce_markdown"
       => DefaultsOfMarkdown(pure.input, pure.output.article)

\* A JSON answer with a number for title, no date, a blank location, a
\* tags list with unusable entries and a capture_info that is no object
\* was normalized.
C15_Witness ==
  /\ pure.done
  /\ pure.op = "coerce_json"
  /\ pure.output.plain.warning = ""
  /\ Field(pure.input, "title") = PyNum
  /\ Field(pure.input, "date") = PyNone
  /\ Field(pure.input, "location") = PyStr(<<>>)
  /\ Field(pure.input, "tags") = PyList(<<PyStr(<<" ", "t1">>), PyNum, PyStr(<<" ">>)>>)
  /\ Field(pure.input, "capture_info") = Word("x")
  /\ pure.output.plain.article
       = ArticleOf(DefaultTitle, CreatedAt, PrivacyLevel, PyList(<<Word("t1")>>),
                   PyStr(<<"b", NL, "c">>), Word("unknown"), Word("unspecified"))

(* ---------------------------------------------------------------------- *)
(* Round trips                                                             *)
(* ---------------------------------------------------------------------- *)

\* A non-blank string without white space at its ends.
Clean(value) ==
  /\ value.t = "str"
  /\ value.s # <<>>
  /\ value.s[1] \notin Whitespace
  /\ value.s[Len(value.s)] \notin Whitespace

\* An Article of the schema with every field non-blank.
Canonical(d) ==
  /\ d.t = "dict"
  /\ KeysOf(d) = <<Key("title"), Key("date"), Key("location"), Key("tags"),
                   Key("body_markdown"), Key("capture_info")>>
  /\ \A name \in {"title", "date", "location", "body_markdown"} : Clean(Field(d, name))
  /\ Field(d, "tags").t = "list"
  /\ \A i \in 1..Len(Field(d, "tags").items) : Clean(Field(d, "tags").items[i])
  /\ Field(d, "capture_info").t = "dict"
  /\ KeysOf(Field(d, "capture_info")) = <<Key("captured_at"), Key("location")>>
  /\ Clean(CaptureField(d, "captured_at"))
  /\ Clean(CaptureField(d, "location"))

ArticleFields == {"title", "date", "location", "tags", "body_markdown", "capture_info"}

SameFields(d, e) == \A name \in ArticleFields : Field(d, name) = Field(e, name)

\* C16: for every Article a with all fields non-blank, coerce of the JSON
\* text of a returns a with no warning, and the markdown-article parser
\* applied to the markdown built from a yields the title, date, location,
\* tags, body_markdown and capture_info of a.
C16_SchemaArticlesRoundTrip ==
  /\ pure.done /\ pure.op = "coerce_json" /\ Canonical(pure.input)
       => pure.output.plain = [article |-> pure.input, warning |-> ""]
  /\ pure.done /\ pure.op = "round_trip" /\ Canonical(pure.input)
       => SameFields(pure.output.parsed, pure.input)

EdgeQuoted(value) ==
  value.s # <<>> /\ (value.s[1] = QUOTE \/ value.s[Len(value.s)] = QUOTE)

\* What does hold of C16: the JSON text of an Article is read back as the
\* Article, and the markdown of an Article whose title has no double quote
\* at either end is parsed back to the Article.
RoundTripWithoutEdgeQuotes ==
  /\ pure.done /\ pure.op = "coerce_json" /\ Canonical(pure.input)
       => pure.output.plain = [article |-> pure.input, warning |-> ""]
  /\ pure.done /\ pure.op = "round_trip" /\ ~EdgeQuoted(Field(pure.input, "title"))
       => SameFields(pure.output.parsed, pure.input)

(* ---------------------------------------------------------------------- *)
(* Code fences                                                             *)
(* ---------------------------------------------------------------------- *)

\* C17 as the specification states it: for every JSON object text, coerce
\* of the text in a code fence with the "json" tag returns the Article and
\* the warning that coerce of the text alone returns.
C17_FencedEqualsPlain ==
  pure.done /\ pure.op = "coerce_json" => pure.output.fenced = pure.output.plain

\* C17: for a JSON object text with a non-blank string body_markdown,
\* coerce of the fenced text returns the Article of the text alone and no
\* warning; for an object without one both texts are parsed as markdown,
\* with the same warning and the same fields except body_markdown, which is
\* the whole text given, fence included.
C17_FencedEqualsPlainWithBody ==
  pure.done /\ pure.op = "coerce_json"
    => LET plain == pure.output.plain
           fenced == pure.output.fenced
           text == json_dumps(pure.input)
       IN IF ~Unusable(Field(pure.input, "body_markdown"))
            THEN fenced = plain /\ plain.warning = ""
            ELSE /\ plain.warning = ParsedAsMarkdownWarning
                 /\ fenced.warning = ParsedAsMarkdownWarning
                 /\ \A name \in ArticleFields \ {"body_markdown"} :
                      Field(fenced.article, name) = Field(plain.article, name)
                 /\ Field(plain.article, "body_markdown") = PyStr(text)
                 /\ Field(fenced.article, "body_markdown") = PyStr(Fenced(text))

\* A fenced JSON answer whose title holds the word "json" gave the Article
\* of the bare answer.
C17_Witness ==
  /\ pure.done
  /\ pure.op = "coerce_json"
  /\ Field(pure.input, "title") = PyStr(<<"json", " ", "x", QUOTE>>)
  /\ Field(pure.input, "body_markdown") = PyStr(<<"b", NL, "c">>)
  /\ pure.output.fenced.warning = ""
  /\ Field(pure.output.fenced.article, "title") = PyStr(<<"json", " ", "x", QUOTE>>)
  /\ pure.output.fenced = pure.output.plain

(* ---------------------------------------------------------------------- *)
(* Markdown fallback                                                       *)
(* ---------------------------------------------------------------------- *)

\* The document gives title, date, location, tags and both capture bullets.
GivesEveryField(d) ==
  /\ \A f \in {"title", "date", "location", "section", "captured_at",
               "capture_location"} : ~Unusable(d[f])
  /\ d.tags_value # Absent

\* coerce returned the values the document was written from.
Recovered(d, r) ==
  /\ r.warning = ParsedAsMarkdownWarning
  /\ r.article = ArticleOf(d.title, d.date, d.location, d.tags, PyStr(d.body),
                           d.captured_at, d.capture_location)

\* C18: for a text that is not JSON and has a front-matter block with title,
\* date, location and tags, then a body, then a "## Capture info" section
\* (heading in any case) with captured_at and location bullets, coerce
\* returns the Article of the encoded values; its body has neither the
\* front matter, nor a leading top-level heading, nor the section.
C18_MarkdownFallbackRecovers ==
  pure.done /\ pure.op = "coerce_markdown" /\ GivesEveryField(pure.input)
    => Recovered(pure.input, pure.output)

\* What does hold of C18: the values are recovered from every such document
\* whose title has no double quote at either end.
RecoveredWithoutEdgeQuotes ==
  pure.done /\ pure.op = "coerce_markdown" /\ GivesEveryField(pure.input)
    /\ ~EdgeQuoted(pure.input.title)
    => Recovered(pure.input, pure.output)

(* ---------------------------------------------------------------------- *)
(* Tags                                                                    *)
(* ---------------------------------------------------------------------- *)

\* C19: front-matter tags written as a bracketed JSON array of strings and
\* the same tags written as a comma-separated list normalize to the same
\* sequence, in the written order, without the quote characters and the
\* white space around each tag; a bracketed value that is not valid JSON
\* is split on commas.
C19_TagsFormsAgree ==
  pure.done /\ pure.op = "tags"
    => /\ Field(pure.output.json_array.article, "tags") = PyList(pure.input.tags)
       /\ Field(pure.output.comma_list.article, "tags") = PyList(pure.input.tags)
       /\ Field(pure.output.bracketed.article, "tags") = PyList(pure.input.tags)

\* Two tags, written between apostrophes and padded, were read from a
\* bracketed value that is not valid JSON.
C19_Witness ==
  /\ pure.done
  /\ pure.op = "tags"
  /\ pure.input = [tags |-> <<PyStr(<<"red", " ", "sea">>), PyStr(<<"t1">>)>>,
                   quote |-> <<APOSTROPHE>>, pad |-> TRUE]
  /\ ~json_loads(<<"[">> \o comma_list(pure.input.tags, pure.input.quote, TRUE)
                   \o <<"]">>).ok
  /\ Field(pure.output.bracketed.article, "tags")
       = PyList(<<PyStr(<<"red", " ", "sea">>), PyStr(<<"t1">>)>>)
  /\ Field(pure.output.json_array.article, "tags")
       = Field(pure.output.comma_list.article, "tags")

(* ---------------------------------------------------------------------- *)
(* Credential                                                              *)
(* ---------------------------------------------------------------------- *)

\* C20: when the stored secret parses as a JSON object the credential is
\* the first non-blank string among its apiKey, key and GEMINI_API_KEY, and
\* the empty string when it has none; a secret that is a plain non-JSON
\* string is returned trimmed; an absent, blank or unfetchable secret gives
\* the empty string.
C20_CredentialFromSecret ==
  pure.done /\ pure.op = "get_api_key"
    => LET answer == pure.input
           secret == secret_value_of(answer)
           payload == json_loads(strip(secret.s))
           usable == {i \in 1..Len(KeyNames) :
                        ~Unusable(dict_get(payload.val, Key(KeyNames[i])))}
       IN IF ~answer.configured \/ ~answer.fetched \/ Unusable(secret)
            THEN pure.output = <<>>
          ELSE IF payload.ok /\ payload.val.t = "dict"
            THEN IF usable = {} THEN pure.output = <<>>
                 ELSE pure.output
                        = strip(dict_get(payload.val, Key(KeyNames[SetMin(usable)])).s)
          ELSE ~payload.ok => pure.output = strip(secret.s)

\* What does hold of C20: every case but the JSON object with none of the
\* three keys, for which the text of the secret is the credential.
CredentialOrSecretText ==
  pure.done /\ pure.op = "get_api_key"
    => LET answer == pure.input
           secret == secret_value_of(answer)
           payload == json_loads(strip(secret.s))
           usable == {i \in 1..Len(KeyNames) :
                        ~Unusable(dict_get(payload.val, Key(KeyNames[i])))}
       IN IF ~answer.configured \/ ~answer.fetched \/ Unusable(secret)
            THEN pure.output = <<>>
          ELSE IF payload.ok /\ payload.val.t = "dict" /\ usable # {}
            THEN pure.output
                   = strip(dict_get(payload.val, Key(KeyNames[SetMin(usable)])).s)
          ELSE pure.output = strip(secret.s)

(* ---------------------------------------------------------------------- *)
(* Upload ids of a unit                                                    *)
(* ---------------------------------------------------------------------- *)

\* The non-blank strings of a list, trimmed, in the order of the list.
NonBlankStrings(items) ==
  LET kept == SelectSeq(items, LAMBDA x : x.t = "str" /\ \E i \in 1..Len(x.s) :
                                                           x.s[i] \notin Whitespace)
  IN [i \in 1..Len(kept) |-> strip(kept[i].s)]

\* The unit carries a usable upload id.
CarriesUploadIds(value) == value.t = "list" /\ NonBlankStrings(value.items) # <<>>

\* The list the article registry gives for derived_from_upload_ids, or
\* PyNone when the read fails or no item, no field or no list is there.
DerivedList(answer) ==
  IF answer.raises \/ answer.item.t # "dict" THEN PyNone
  ELSE LET at == {i \in 1..Len(answer.item.items) :
                    answer.item.items[i].k = Key("derived_from_upload_ids")}
       IN IF at = {} THEN PyNone
          ELSE IF answer.item.items[SetMax(at)].val.t # "list" THEN PyNone
          ELSE answer.item.items[SetMax(at)].val

RECURSIVE Flatten(_)
Flatten(seqs) == IF seqs = <<>> THEN <<>> ELSE Head(seqs) \o Flatten(Tail(seqs))

\* The context lookups of a scenario that gave the record.
ContextHasUpload(scenario) ==
  scenario \notin {"context_upload_raises", "context_both_raise", "all_fail"}

ContextHasMetadata(scenario) ==
  scenario \notin {"context_metadata_missing", "context_both_raise", "all_fail"}

\* The bytes of the photo were fetched: a lookup of _load_image_parts gave
\* a location and the object store gave non-empty bytes.
BytesFetched(scenario) ==
  scenario \in {"ok", "context_upload_raises", "context_metadata_missing",
                "context_both_raise", "image_metadata_raises"}

\* The line of the i-th upload id, from the records its own lookups gave.
ExpectedLine(i, upload_id, scenario) ==
  <<ToString(i), ".", " ", "id", "=">> \o upload_id
    \o (IF ContextHasMetadata(scenario)
          THEN <<";", " ", "file", "=">> \o ObjectKeyOf(upload_id)
                 \o <<";", " ", "captured_at", "=", "T2">>
        ELSE IF ContextHasUpload(scenario)
          THEN <<";", " ", "file", "=">> \o S3Uri("s3", <<"photos">>, ObjectKeyOf(upload_id))
        ELSE <<>>)
    \o (IF ContextHasUpload(scenario) THEN <<";", " ", "uploaded_at", "=", "T1">> ELSE <<>>)
    \o (IF ContextHasMetadata(scenario)
          THEN <<";", " ", "camera", "=", "Canon", ";", " ", "location", "=", "Kyoto",
                 ",", " ", "Japan", ";", " ", "type", "=", "image/jpeg">>
        ELSE <<>>)

ExpectedPart(upload_id, scenario) ==
  IF BytesFetched(scenario)
    THEN <<InlineData(<<"image/jpeg">>, <<"base64", ":">> \o BytesOf(upload_id))>>
    ELSE <<>>

\* C22: whatever lookups and fetches fail for the upload ids of a unit,
\* the context assembly returns; the photo-context block has one line per
\* upload id in request order, the line of an id holding what the id's own
\* lookups gave; and the attachments are those of the ids whose bytes were
\* fetched, in request order.
C22_FailuresStayWithTheirId ==
  pure.done /\ pure.op = "assemble_context"
    => LET ids == pure.input.upload_ids
           scenarios == pure.input.scenarios
           lines == IF ids = <<>> THEN <<>> ELSE splitlines(pure.output.photo_context)
       IN /\ ~pure.output.image_parts.raises
          /\ ids = <<>> => pure.output.photo_context = <<>>
          /\ Len(lines) = Len(ids)
          /\ \A i \in 1..Len(ids) : lines[i] = ExpectedLine(i, ids[i], scenarios[i])
          /\ pure.output.image_parts.parts
               = Flatten([i \in 1..Len(ids) |-> ExpectedPart(ids[i], scenarios[i])])

\* Of two upload ids the first had every lookup and the fetch fail: it has
\* its line and no attachment, the second its full line and its attachment.
C22_Witness ==
  /\ pure.done
  /\ pure.op = "assemble_context"
  /\ pure.input.upload_ids = << <<"u1">>, <<"u2">> >>
  /\ pure.input.scenarios = <<"all_fail", "ok">>
  /\ pure.output.photo_context
       = <<"1", ".", " ", "id", "=", "u1", NL>> \o ExpectedLine(2, <<"u2">>, "ok")
  /\ pure.output.image_parts
       = Loaded(<<InlineData(<<"image/jpeg">>, <<"base64", ":">> \o BytesOf(<<"u2">>))>>)

(* ---------------------------------------------------------------------- *)
(* Object location of a photo                                              *)
(* ---------------------------------------------------------------------- *)

\* The pair that a text of the form s3://bucket/key names, NoLocation for
\* any other value.
PairOfUri(value) ==
  IF value.t # "str" THEN NoLocation
  ELSE LET s == strip(value.s)
           rest == drop(s, 4)
           slash == find(rest, "/")
       IN IF /\ startswith(s, <<"s3", ":", "/", "/">>)
             /\ slash > 1
             /\ slash < Len(rest)
             /\ \A i \in 1..(slash - 1) : rest[i] \notin UrlDelims
            THEN Location(SubSeq(rest, 1, slash - 1), drop(rest, slash))
          ELSE NoLocation

\* The pair of object_bucket and object_key, if both are non-blank strings.
PairOfFields(metadata_item) ==
  IF Unusable(Field(metadata_item, "object_bucket"))
     \/ Unusable(Field(metadata_item, "object_key"))
    THEN NoLocation
  ELSE Location(strip(Field(metadata_item, "object_bucket").s),
                strip(Field(metadata_item, "object_key").s))

\* The three sources of a photo's location, in the order of precedence.
LocationSources(upload_item, metadata_item) ==
  <<PairOfFields(metadata_item), PairOfUri(Field(metadata_item, "s3_uri")),
    PairOfUri(Field(upload_item, "original_image_uri"))>>

\* The pair of the first source that yields one.
FirstValidSource(upload_item, metadata_item) ==
  LET sources == LocationSources(upload_item, metadata_item)
      valid == {i \in 1..3 : sources[i].found}
  IN IF valid = {} THEN NoLocation ELSE sources[SetMin(valid)]

\* The (bucket, key) a fetch can use, <<>> if either is missing.
UsablePair(location) ==
  IF location.bucket = <<>> \/ location.key = <<>> THEN <<>>
  ELSE <<location.bucket, location.key>>

\* C28 as the specification states it: the (bucket, key) of a photo is
\* the pair of the first of the three sources that yields a valid pair,
\* and the photo has no attachment only when none of them yields one.
C28_FirstValidSourceWins ==
  pure.done /\ pure.op = "resolve_s3_location"
    => LET expected == FirstValidSource(pure.input.upload_item, pure.input.metadata_item)
       IN /\ ~pure.output.location.raises
          /\ UsablePair(pure.output.location) = UsablePair(expected)
          /\ pure.output.loaded = Loaded(<<>>) <=> ~expected.found

\* What holds instead: the URI of the upload record is read only when the
\* metadata record has no non-blank string s3_uri, and a URI whose host has
\* an opening bracket makes urlparse raise.
LocationFromFirstRecordedUri ==
  pure.done /\ pure.op = "resolve_s3_location"
    => LET fields == PairOfFields(pure.input.metadata_item)
           uri == IF Unusable(Field(pure.input.metadata_item, "s3_uri"))
                    THEN Field(pure.input.upload_item, "original_image_uri")
                    ELSE Field(pure.input.metadata_item, "s3_uri")
           expected == IF fields.found THEN fields ELSE PairOfUri(uri)
           raises == /\ ~fields.found
                     /\ uri.t = "str"
                     /\ \E i \in 1..Len(uri.s) : uri.s[i] = "["
       IN IF raises
            THEN pure.output.location.raises /\ pure.output.loaded.raises
            ELSE /\ ~pure.output.location.raises
                 /\ UsablePair(pure.output.location) = UsablePair(expected)
                 /\ pure.output.loaded = Loaded(<<>>) <=> ~expected.found

(* ---------------------------------------------------------------------- *)
(* Code fences without a language tag                                      *)
(* ---------------------------------------------------------------------- *)

RECURSIVE HoldsWord(_, _)
\* The word occurs in a string of the value, at any depth.
HoldsWord(value, word) ==
  \/ \E i \in 1..Len(value.s) : value.s[i] = word
  \/ \E i \in 1..Len(value.items) :
       IF value.t = "dict"
         THEN \/ \E j \in 1..Len(value.items[i].k) : value.items[i].k[j] = word
              \/ HoldsWord(value.items[i].val, word)
         ELSE HoldsWord(value.items[i], word)

\* C29 as the specification states it: for every JSON object text, coerce
\* of the text in a code fence without a language tag returns the Article
\* and the warning that coerce of the text alone returns.
C29_UntaggedFenceEqualsPlain ==
  pure.done /\ pure.op = "coerce_json" => pure.output.untagged = pure.output.plain

\* What holds instead: the untagged fence gives the Article of the text
\* alone for the objects that have a non-blank string body_markdown and do
\* not hold the word json.
UntaggedFenceWithoutJsonWord ==
  pure.done /\ pure.op = "coerce_json"
    /\ ~Unusable(Field(pure.input, "body_markdown")) /\ ~HoldsWord(pure.input, "json")
    => pure.output.untagged = pure.output.plain /\ pure.output.plain.warning = ""

\* An object whose title holds the word json lost the word in the untagged
\* fence.
UntaggedFenceLosesJsonWord ==
  pure.done /\ pure.op = "coerce_json"
    /\ ~Unusable(Field(pure.input, "body_markdown"))
    /\ Field(pure.input, "title") = PyStr(<<"json", " ", "x", QUOTE>>)
    => /\ Field(pure.output.plain.article, "title") = PyStr(<<"json", " ", "x", QUOTE>>)
       /\ Field(pure.output.untagged.article, "title") = PyStr(<<"x", QUOTE>>)
       /\ pure.output.untagged.warning = ""


(* ---------------------------------------------------------------------- *)
(* C23                                                                     *)
(* ---------------------------------------------------------------------- *)

\* The record at hand is a unit whose outcome has not been written yet.
UnitInProgress == pc \in {"urlopen", "after_call", "update_article"}

\* unit holds the locals of a unit that began.
UnitBegun == UnitInProgress \/ pc = "update_run" \/ UnitWritten

\* No earlier record of the event is a unit with this article id or run id.
FirstUseOf(article_id, run_id) ==
  \A i \in 1..idx :
    IsUnit(event[i]) =>
      event[i].article_id.v # article_id /\ event[i].run_id.v # run_id

\* C23: the context of a unit is assembled once, before its first request;
\* every call of the unit (initial, retry, expand) is given the attachments
\* of the unit, the initial and the retry prompt embed the photo context
\* and the photo count of the unit, and the expand prompt embeds neither;
\* until the outcome write nothing has been written for the unit: its
\* update counters are 0 and its article and run item are as they were.
C23_ContextAssembledOnce ==
  /\ UnitInProgress =>
       /\ lookups[idx + 1].context = 1
       /\ updates[idx + 1] = [article |-> 0, run |-> 0]
       /\ FirstUseOf(unit.article_id, unit.run_id) =>
            /\ articles[unit.article_id] = PendingArticle
            /\ runs[unit.run_id] = QueuedRun
  /\ pc = "urlopen" =>
       /\ call.image_parts = unit.image_parts
       /\ call.requests = 0 => hist[call.stage] = StageNotRun
       /\ call.stage = "initial" /\ call.requests = 0 => hist = NoHistory
  /\ UnitBegun =>
       \A s \in Stages :
         StageCalled(s) =>
           /\ hist[s].image_parts = unit.image_parts
           /\ IF s = "expand"
                THEN /\ hist[s].prompt.template = "improve"
                     /\ hist[s].prompt.photo_details = <<>>
                ELSE /\ hist[s].prompt.template = "draft"
                     /\ hist[s].prompt.photo_details = unit.photo_context
                     /\ hist[s].prompt.photo_count = <<Len(unit.upload_ids)>>
                     /\ hist[s].prompt.retry = (s = "retry")

\* A written unit with photo context and attachments whose three calls were
\* all made.
C23_Witness ==
  /\ UnitWritten
  /\ unit.photo_context # <<>>
  /\ unit.image_parts # <<>>
  /\ \A s \in Stages : hist[s].state = "returned"
  /\ lookups[idx].context = 1


(* ---------------------------------------------------------------------- *)
(* C24                                                                     *)
(* ---------------------------------------------------------------------- *)

\* The record of the unit that unit, call and hist belong to.
CurrentBody == IF UnitWritten THEN event[idx] ELSE event[idx + 1]

\* A call of the unit is under way.
CallRunning == pc \in {"urlopen", "after_call"}

\* The call of stage s has been made (it may still be under way).
StageMade(s) == StageCalled(s) \/ (CallRunning /\ call.stage = s)

StageOrder == <<"initial", "retry", "expand">>

\* The floor of the length tier a record asks for.
FloorOf(body) ==
  IF body.length = Str("short") THEN 300
  ELSE IF body.length = Str("long") THEN 1200
  ELSE 600

\* C24: the calls of a unit are made in the order initial, retry, expand,
\* each at most once: a call under way is that of a stage not called
\* before, every earlier stage it follows has returned and no later stage
\* has been called.  Once the initial call has returned, the retry call is
\* made exactly when the body of the initial Article (0 without Article) is
\* below the floor of the length tier (short 300, long 1200, otherwise
\* 600); once the retry call has returned, the expand call is made exactly
\* when the Article then current exists and is below the floor; the expand
\* call is never made without a retry call that returned, nor without an
\* Article, and no call is made while the current body meets the floor.
C24_StagesInOrder ==
  UnitBegun =>
    /\ unit.min_chars = FloorOf(CurrentBody)
    /\ unit.api_key = <<>> => \A s \in Stages : ~StageMade(s)
    /\ CallRunning =>
         /\ hist[call.stage] = StageNotRun
         /\ article_body_length(unit.article_json) < unit.min_chars
         /\ \A i, j \in 1..3 :
              /\ (StageOrder[j] = call.stage /\ i > j) => ~StageCalled(StageOrder[i])
              /\ (StageOrder[j] = call.stage /\ i < j /\ StageCalled(StageOrder[i])) =>
                   hist[StageOrder[i]].state = "returned"
    /\ StageMade("retry") => hist["initial"].state = "returned"
    /\ StageMade("expand") =>
         /\ hist["retry"].state = "returned"
         /\ AfterRetryArticle.present
    /\ hist["initial"].state = "returned" =>
         (StageMade("retry") <=>
            article_body_length(hist["initial"].article) < unit.min_chars)
    /\ hist["initial"].state = "returned" /\ ~StageMade("retry") => ~StageMade("expand")
    /\ hist["retry"].state = "returned" =>
         (StageMade("expand") <=>
            /\ AfterRetryArticle.present
            /\ article_body_length(AfterRetryArticle) < unit.min_chars)

\* A unit of the long tier whose retry gave a body below 1200 characters and
\* whose expansion was called and returned.
C24_Witness ==
  /\ UnitWritten
  /\ CurrentBody.length = Str("long")
  /\ unit.min_chars = 1200
  /\ hist["retry"].article.present
  /\ hist["expand"].state = "returned"


(* ---------------------------------------------------------------------- *)
(* C25                                                                     *)
(* ---------------------------------------------------------------------- *)

\* The requests the unit has sent: those of its finished calls and those of
\* the call under way.
RequestsSent ==
  hist["initial"].requests + hist["retry"].requests + hist["expand"].requests
    + (IF CallRunning THEN call.requests ELSE 0)

CallsMade == Cardinality({s \in Stages : StageMade(s)})

\* The requests a unit can send at most.
MaxRequests == 3 * (GEMINI_MAX_RETRIES + 1)

RequestsBounded ==
  UnitBegun =>
    /\ CallsMade <= 3
    /\ CallRunning => call.requests <= GEMINI_MAX_RETRIES + 1
    /\ \A s \in Stages : hist[s].requests <= GEMINI_MAX_RETRIES + 1
    /\ RequestsSent <= CallsMade * (GEMINI_MAX_RETRIES + 1)
    /\ RequestsSent <= MaxRequests

\* C25: a unit that has begun always gets its outcome written, whatever the
\* API answers; until then it has made at most three calls, each of at most
\* GEMINI_MAX_RETRIES + 1 requests, hence at most
\* 3 * (GEMINI_MAX_RETRIES + 1) requests in all.
C25_UnitTerminates ==
  /\ []RequestsBounded
  /\ UnitInProgress ~> UnitWritten

\* A written unit that sent 3 * (GEMINI_MAX_RETRIES + 1) requests.
C25_Witness ==
  /\ UnitWritten
  /\ CallsMade = 3
  /\ RequestsSent = MaxRequests


(* ---------------------------------------------------------------------- *)
(* C26                                                                     *)
(* ---------------------------------------------------------------------- *)

\* No Article survived the chain of the unit.
NoArticleSurvived == ~unit.article_json.present

\* The message recorded when handler reaches line 794 without Article:
\* that of line 792 without a credential, the text of the exception of a
\* call that raised, and otherwise the warning lines 753-768 left.
RecordedMessage ==
  IF unit.api_key = <<>> THEN MissingKeyMessage
  ELSE IF hist["initial"].state = "raised" THEN hist["initial"].exc
  ELSE IF hist["retry"].state = "raised" THEN hist["retry"].exc
  ELSE unit.warning

\* The locals of the unit as they would reach line 794 without Article and
\* with the given message.
WithoutArticle(message) ==
  [unit EXCEPT !.article_json = NoArticle, !.error_message = message,
               !.markdown = EmptyMarkdown]

StoredWhole(a) ==
  /\ StoredArticle.body_json = a
  /\ StoredArticle.title =
       (IF a.title = "" THEN FallbackTitle(unit.article_id) ELSE a.title)
  /\ StoredArticle.body_markdown = build_markdown_from_json(a)

\* C27: the stored body_json is {"status": "fallback"} exactly when no
\* attempt of the unit gave an Article, and then body_markdown is the
\* placeholder; otherwise body_json is the Article one attempt of the unit
\* gave, all its fields from that attempt (the attempt the current Article
\* was taken from), and title and body_markdown are derived from that same
\* Article; while the chain runs the current Article is likewise none or
\* that of one attempt.
C27_StoredFromOneAttempt ==
  /\ UnitBegun =>
       \/ unit.article_json = NoArticle /\ unit.article_from = "none"
       \/ /\ unit.article_from \in Stages
          /\ hist[unit.article_from].article.present
          /\ unit.article_json = hist[unit.article_from].article
  /\ UnitWritten =>
       /\ StoredArticle.body_json = FallbackBodyJson <=>
            \A s \in Stages : ~hist[s].article.present
       /\ StoredArticle.body_json = FallbackBodyJson <=>
            StoredArticle.body_markdown = build_markdown(FallbackTitle(unit.article_id))
       /\ StoredArticle.body_json # FallbackBodyJson =>
            /\ unit.article_from \in Stages
            /\ StoredWhole(hist[unit.article_from].article)
            /\ \E s \in Stages : hist[s].article.present /\ StoredWhole(hist[s].article)

\* The stored Article is that of the retry, which differs from the initial
\* one in title and body; the expansion parsed too and was dropped.
C27_Witness ==
  /\ UnitWritten
  /\ unit.article_from = "retry"
  /\ hist["initial"].article.present
  /\ hist["expand"].article.present
  /\ hist["initial"].article.title # hist["retry"].article.title
  /\ hist["initial"].article.body_len # hist["retry"].article.body_len
  /\ StoredArticle.body_json = hist["retry"].article


(* ---------------------------------------------------------------------- *)
(* C30                                                                     *)
(* ---------------------------------------------------------------------- *)

\* The wait claimed after the n-th timed-out attempt: 1, 2, 4, 8, 8, ...
ClaimedWait(n) ==
  IF n = 1 THEN 1 ELSE IF n = 2 THEN 2 ELSE IF n = 3 THEN 4 ELSE 8

\* C30: the waits of a call are, in order, those after its first, second,
\* ... timed-out attempt that left a retry: min(2^(n-1), 8), that is 1, 2,
\* 4, 8, 8, ..., never decreasing and never above 8; there is one wait per
\* timed-out attempt that leaves a retry, none after the timed-out attempt
\* that uses up the retries, and none after a response or an error.
C30_BackoffSchedule ==
  (pure.op = "request_loop" /\ pure.done) =>
    LET waits == pure.output
        timed_out == Min(pure.input.timeouts, pure.input.max_retries + 1)
    IN /\ Len(waits) = Min(timed_out, pure.input.max_retries)
       /\ \A n \in 1..Len(waits) :
            /\ waits[n] = ClaimedWait(n)
            /\ waits[n] = Min(2 ^ (n - 1), 8)
            /\ waits[n] <= 8
            /\ n > 1 => waits[n - 1] <= waits[n]
       /\ (pure.input.last = "timeout") => Len(waits) = pure.input.timeouts - 1
       /\ (pure.input.last # "timeout" /\ pure.input.timeouts <= pure.input.max_retries) =>
            Len(waits) = pure.input.timeouts

\* A call allowed five retries whose six requests all timed out: it waited
\* 1, 2, 4, 8 and 8 time units and not after the sixth timeout.
C30_Witness ==
  /\ pure.op = "request_loop"
  /\ pure.done
  /\ pure.input.last = "timeout"
  /\ pure.input.timeouts = 6
  /\ pure.output = <<1, 2, 4, 8, 8>>


(* ---------------------------------------------------------------------- *)
(* C34: one credential lookup per worker process                           *)
(* ---------------------------------------------------------------------- *)

\* The cache of the process holds the credential the running unit was given.
SeesCachedCredential ==
  UnitBegun => (API_KEY_CACHE.some /\ unit.api_key = API_KEY_CACHE.v)

\* A step leaves a cache that is set as it is.
CacheKept == API_KEY_CACHE.some => API_KEY_CACHE' = API_KEY_CACHE

\* C34: a worker process calls the secret store at most once; what the
\* first lookup recorded, the empty credential of a failed, blank or
\* unconfigured fetch included, is never replaced and is the credential of
\* every unit the process handles afterwards.
C34_SecretQueriedOnce ==
  /\ [](secret_calls <= 1 /\ SeesCachedCredential)
  /\ [][CacheKept]_vars

\* The second unit of a batch runs with the empty credential a failed fetch
\* left in the cache, after the one call the process made.
C34_Witness ==
  /\ idx = 1
  /\ IsUnit(event[1])
  /\ UnitInProgress
  /\ prev.set
  /\ secret_calls = 1
  /\ API_KEY_CACHE = Some(<<>>)
  /\ unit.api_key = <<>>


(* ---------------------------------------------------------------------- *)
(* C33: generate-article writes its two items before it sends the unit     *)
(* ---------------------------------------------------------------------- *)

\* A message of generate-article: it carries upload_ids.
FromGenerate(m) == m.form = "object" /\ m.upload_ids = SentUploadIds

\* The items the unit m names are in the registries, the article item with
\* the upload ids of the unit.
ItemsExist(m) ==
  /\ articles[m.article_id.v].status # "absent"
  /\ articles[m.article_id.v].derived_from_upload_ids = m.upload_ids
  /\ runs[m.run_id.v].status # "absent"

\* The units of generate-article that are in the queue or with a worker.
ReceivableUnits ==
  {m \in queue : FromGenerate(m)}
    \cup {event[w] : w \in {v \in WorkerIds : /\ workers[v].pc # "idle"
                                             /\ FromGenerate(event[v])}}

\* A step that sends a unit of generate-article is taken by an invocation
\* that was not rejected, with the article item draft_pending and the run
\* item queued.
SendsAfterWrites ==
  \A m \in (queue' \ queue) :
    FromGenerate(m) =>
      /\ articles[m.article_id.v].status = "draft_pending"
      /\ articles[m.article_id.v].derived_from_upload_ids = m.upload_ids
      /\ runs[m.run_id.v].status = "queued"
      /\ \E i \in 1..Len(http) :
           /\ http[i].handler = "generate"
           /\ http[i].status = 0
           /\ http[i].article_id = m.article_id.v
           /\ http[i].run_id = m.run_id.v

\* A step that rejects a request writes nothing and sends nothing.
RejectionSendsNothing ==
  (/\ Len(http') = Len(http) + 1
   /\ http'[Len(http')].handler = "generate"
   /\ http'[Len(http')].status \in {400, 500}) =>
     /\ queue' = queue
     /\ articles' = articles
     /\ runs' = runs

\* C33: generate-article puts the article item (status draft_pending, with
\* derived_from_upload_ids) and the run item (status queued) before it
\* sends the unit, and a rejected request sends nothing; so every unit of
\* generate-article that is in the queue or was handed to a worker names an
\* article item and a run item that exist.
C33_WritesBeforeEnqueue ==
  /\ [](\A m \in ReceivableUnits : ItemsExist(m))
  /\ [][SendsAfterWrites /\ RejectionSendsNothing]_vars

\* A worker holds the unit of an accepted request whose items exist, next
\* to a rejected request that left no message.
C33_Witness ==
  /\ Len(http) = 2
  /\ http[1].handler = "generate" /\ http[1].status = 200
  /\ http[2].handler = "generate" /\ http[2].status = 400
  /\ queue = {GenerateMessage(http[1].article_id, http[1].run_id)}
  /\ \E w \in WorkerIds :
       /\ workers[w].pc = "urlopen"
       /\ event[w] \in queue
       /\ ItemsExist(event[w])


(* ---------------------------------------------------------------------- *)
(* C31: one unit processed twice at the same time                          *)
(* ---------------------------------------------------------------------- *)

\* Both workers were handed the same message, both called the model, which
\* gave them different outputs, and both handlers returned.
DuplicatesFinished ==
  /\ \A w \in WorkerIds : workers[w].pc = "returned" /\ workers[w].unit.api_key # <<>>
  /\ event[1] = event[2]
  /\ workers[1].hist # workers[2].hist

\* The article item and the run item hold what the attempt of worker w
\* wrote (lines 805-833).
WrittenBy(w) ==
  LET u == workers[w].unit
      written == article_update(articles[u.article_id], u)
  IN /\ articles[u.article_id].title = written.title
     /\ articles[u.article_id].body_markdown = written.body_markdown
     /\ articles[u.article_id].body_json = written.body_json
     /\ runs[u.run_id].model = u.model_used
     /\ runs[u.run_id].error_message = u.error_message

\* C31: when two deliveries of one unit were processed concurrently, the
\* article item (title, body_markdown, body_json) and the run item (model,
\* error_message) were written by the same attempt.
C31_DuplicatesConsistent ==
  DuplicatesFinished => \E w \in WorkerIds : WrittenBy(w)

(* ---------------------------------------------------------------------- *)
(* C32: status draft and the runs that are still queued                    *)
(* ---------------------------------------------------------------------- *)

\* The runs the handlers created for article a that are still queued.
QueuedRunsOf(a) ==
  {r \in RunIds : /\ runs[r].status = "queued"
                  /\ \E i \in 1..Len(http) : /\ http[i].article_id = a
                                             /\ http[i].run_id = r}

\* A worker stands between its update of article a (line 819) and the
\* update of its run (line 821), or a handler between its calls for a.
BetweenUpdates(a) ==
  \/ \E w \in WorkerIds : workers[w].pc = "update_run" /\ workers[w].unit.article_id = a
  \/ \E i \in 1..Len(http) : http[i].article_id = a /\ http[i].status = 0

\* C32: whenever an article item has status draft, no run created for the
\* article is still queued; the states in which a worker has written the
\* article and not yet its own run, or a handler has made some of its calls
\* for the article and not the others, are not counted against the claim.
C32_DraftMeansApplied ==
  \A a \in ArticleIds :
    (articles[a].status = "draft" /\ ~BetweenUpdates(a)) => QueuedRunsOf(a) = {}


(* ---------------------------------------------------------------------- *)
(* C35: the status of an upload item                                       *)
(* ---------------------------------------------------------------------- *)

\* created, uploaded, metadata_ready, in this order.
StatusRank(status) ==
  CASE status = "absent" -> 0
    [] status = "created" -> 1
    [] status = "uploaded" -> 2
    [] status = "metadata_ready" -> 3

\* C35: no step moves the status of an upload item backwards; an item that
\* is metadata_ready stays metadata_ready.
C35_StatusMovesForward ==
  [][\A u \in UploadIds :
       StatusRank(uploads'[u].status) >= StatusRank(uploads[u].status)]_vars

====
